---- MODULE Spec2Model ----
(***************************************************************************)
(* The decision engine of esroyo/ahp (packages/lib/src/decision.ts): the   *)
(* Decision object graph, Structure Completion (fill), add, remove, the    *)
(* Comparison Protocol (compare), the measurement part of validate and the *)
(* matrix entries evaluate works on.                                       *)
(*                                                                         *)
(* JavaScript values are represented as follows.                           *)
(*   - an id is a natural number; NoId (0) is an absent (falsy) id;        *)
(*   - a name is a string; NoName ("") is an absent (falsy) name;          *)
(*   - a weight is an integer; NoWeight (0) is an absent weight;           *)
(*   - `comparisons` is a pair (isArr, comparisons): isArr tells whether   *)
(*     the field holds an array, comparisons is its content;               *)
(*   - objects are references in JavaScript.  fill() may place the object  *)
(*     that Array.find returned in several positions of one list (when two *)
(*     peers carry the same id).  The field `alias` of a measurement or of *)
(*     a comparison is TRUE when the entry is the same object as the first *)
(*     entry of its list with the same key, so that a write through one    *)
(*     reference is seen through the others.                               *)
(***************************************************************************)
EXTENDS Integers, Sequences, FiniteSets, TLC

VARIABLES
    id,            \* Decision.id
    goal,          \* Decision.goal
    criteria,      \* Decision.criteria
    alternatives,  \* Decision.alternatives
    nextUid,       \* value the injected uid() returns next (counter generator)
    shape,         \* what the fields criteria and alternatives hold: "list" (an
                   \* array, the variable), "absent" (deleted) or "object" (a
                   \* value that is no array); the variable is <<>> for the last two
    results,       \* what the evaluate calls have written so far: the priorities
                   \* of criteria, comparisons and alternatives ("none", "some"
                   \* of them, or "all") and whether the summary was written
    compares,      \* number of compare calls so far
    runState,      \* the interactive run: its RunState and the prompt it awaits
    last           \* the call made last: its arguments and its outcome

vars ==
    <<id, goal, criteria, alternatives, nextUid, shape, results, compares, runState,
      last>>

-----------------------------------------------------------------------------
(* Bounds of the model *)

\* the largest value the counter generator hands out
MaxUid == 3
\* the number of compare calls of one run
MaxCompares == 2
\* the largest weight the by-name client tries
MaxWeight == 2
\* how far outside the scale 1..9 the tried weights go
Beyond == 1

-----------------------------------------------------------------------------
(* Values *)

NoId == 0
NoName == ""
NoWeight == 0
NoGoal == ""

\* enum Intensity: the numeric members Equal = 1 .. Extreme = 9
IntensityEqual == 1
IntensityExtreme == 9
Intensity == IntensityEqual..IntensityExtreme

\* names the callers use for criteria and for alternatives
CriterionNames == {"Exp", "Edu"}
AlternativeNames == {"Tom", "Exp"}
\* an id and a name no item ever has
UnknownId == 999
UnknownName == "Zed"

-----------------------------------------------------------------------------
(* Helpers: a value computed once, Array.prototype.find and filter *)

\* F applied to the value of v; v is evaluated once, as a `const` is
Let(v, F(_)) == CHOOSE r \in {F(x) : x \in {v}} : TRUE

\* index of the first element satisfying P, 0 when there is none (find)
FirstIdx(s, P(_)) ==
    IF \E i \in DOMAIN s : P(s[i])
    THEN CHOOSE i \in DOMAIN s : P(s[i]) /\ \A j \in 1..(i - 1) : ~P(s[j])
    ELSE 0

\* items.filter((x) => x.id !== self.id)
Others(items, self) == SelectSeq(items, LAMBDA x : x.id # self.id)

-----------------------------------------------------------------------------
(* Structure Completion: Decision.fill *)

\* { pairId: x.id }
NewMeasurement(pairId) == [pairId |-> pairId, weight |-> NoWeight, alias |-> FALSE]

\* number of uid() calls fill makes for the items before position i
UidRank(items, i) == Cardinality({j \in 1..(i - 1) : items[j].id = NoId})

\* number of uid() calls fill makes for a list of items
UidNeeded(items) == Cardinality({j \in DOMAIN items : items[j].id = NoId})

\* for (const x of items) if (!x.id) x.id = this.uid()     with uid() = n, n+1, ..
AssignIds(items, n) ==
    [i \in DOMAIN items |->
        IF items[i].id = NoId
        THEN [items[i] EXCEPT !.id = n + UidRank(items, i)]
        ELSE items[i]]

\* a rebuild that makes every slot anew and so forgets the weights
RebuildMeasurements_Forgets(old, others) ==
    [k \in 1..Len(others) |-> NewMeasurement(others[k].id)]

\* others.map((o) => old.find((m) => m.pairId === o.id) || { pairId: o.id })
\* The found object is reused: when two peers carry the same id the second
\* position holds the same object as the first.
RebuildMeasurements(old, others) ==
    [k \in 1..Len(others) |->
        LET i == FirstIdx(old, LAMBDA m : m.pairId = others[k].id)
        IN  IF i # 0
            THEN [old[i] EXCEPT !.alias =
                     \E j \in 1..(k - 1) : others[j].id = others[k].id]
            ELSE NewMeasurement(others[k].id)]

\* the criterion for which fill throws a TypeError: comparisons is an array
\* without element 0, so criterion.comparisons[0].measurements cannot be set
CriterionCrashes(c) == c.isArr /\ Len(c.comparisons) = 0

\* criterion.comparisons, or [{ measurements: [] }] when it is no array
CriterionComparisons(c) ==
    IF ~c.isArr
    THEN <<[criterionId |-> NoId, measurements |-> <<>>, alias |-> FALSE]>>
    ELSE c.comparisons

\* body of the second loop over this.criteria
FillCriterion(c, crits) ==
    Let(Others(crits, c), LAMBDA others :
        [c EXCEPT !.isArr = TRUE,
                  !.comparisons = [CriterionComparisons(c) EXCEPT ![1].measurements =
                      RebuildMeasurements(@, others)]])

\* the second loop over this.criteria, up to the criterion that throws
FillCriteria(crits) ==
    Let(FirstIdx(crits, CriterionCrashes), LAMBDA crash :
        [k \in DOMAIN crits |->
            IF crash = 0 \/ k < crash THEN FillCriterion(crits[k], crits)
            ELSE crits[k]])

\* if (comparison.measurements.length !== this.alternatives.length - 1) rebuild
CompleteMeasurements(meas, others, alts) ==
    IF Len(meas) # Len(alts) - 1
    THEN RebuildMeasurements(meas, others)
    ELSE meas

\* the comparison fill makes when the alternative has none for the criterion
NewComparison(critId, others) ==
    [criterionId |-> critId,
     measurements |-> [k \in 1..Len(others) |-> NewMeasurement(others[k].id)],
     alias |-> FALSE]

\* body of the second loop over this.alternatives.  A comparison found in the
\* old list is completed in place once per criterion carrying its criterionId.
FillAlternative(a, crits, alts) ==
    Let(Others(alts, a), LAMBDA others :
        LET old == IF a.isArr THEN a.comparisons ELSE <<>>
            visits(k) == Cardinality({j \in DOMAIN crits : crits[j].id = crits[k].id})
            once(i) == CompleteMeasurements(old[i].measurements, others, alts)
        IN  [a EXCEPT !.isArr = TRUE,
                      !.comparisons =
                [k \in DOMAIN crits |->
                    LET i == FirstIdx(old, LAMBDA comp : comp.criterionId = crits[k].id)
                    IN  IF i # 0
                        THEN [criterionId |-> old[i].criterionId,
                              measurements |->
                                  IF visits(k) = 1 THEN once(i)
                                  ELSE CompleteMeasurements(once(i), others, alts),
                              alias |-> \E j \in 1..(k - 1) : crits[j].id = crits[k].id]
                        ELSE [NewComparison(crits[k].id, others) EXCEPT !.measurements =
                                  CompleteMeasurements(@, others, alts)]]])

\* the second loop over this.alternatives
FillAlternatives(alts, crits) ==
    [k \in DOMAIN alts |-> FillAlternative(alts[k], crits, alts)]

\* a fill that calls uid() for the decision's id whether it has one or not
UidAfterId_Always(d) == d.nextUid + 1

\* the value uid() returns next once fill has given the decision its id
UidAfterId(d) == IF d.id = NoId THEN d.nextUid + 1 ELSE d.nextUid

\* Decision.fill applied to the decision d = [id, goal, criteria, alternatives,
\* nextUid]; the result carries `thrown`, the error fill ended with ("" = none)
fill(d) ==
    Let(AssignIds(d.criteria, UidAfterId(d)), LAMBDA crits1 :
    Let(FillCriteria(crits1), LAMBDA crits2 :
    Let(UidAfterId(d) + UidNeeded(d.criteria), LAMBDA n2 :
        IF \E k \in DOMAIN crits1 : CriterionCrashes(crits1[k])
        THEN [id |-> IF d.id = NoId THEN d.nextUid ELSE d.id,
              goal |-> IF d.goal = NoGoal THEN "unknown" ELSE d.goal,
              criteria |-> crits2,
              alternatives |-> d.alternatives,
              nextUid |-> n2,
              thrown |-> "TypeError"]
        ELSE [id |-> IF d.id = NoId THEN d.nextUid ELSE d.id,
              goal |-> IF d.goal = NoGoal THEN "unknown" ELSE d.goal,
              criteria |-> crits2,
              alternatives |->
                  Let(AssignIds(d.alternatives, n2), LAMBDA alts1 :
                      FillAlternatives(alts1, crits2)),
              nextUid |-> n2 + UidNeeded(d.alternatives),
              thrown |-> ""])))

\* number of uid() calls fill(d) makes when it does not throw
FillUids(d) ==
    (IF d.id = NoId THEN 1 ELSE 0) + UidNeeded(d.criteria) + UidNeeded(d.alternatives)

\* if (!Array.isArray(this.criteria)) this.criteria = [], and the same for the
\* alternatives: after fill both fields are arrays
Arrays == [criteria |-> "list", alternatives |-> "list"]

\* the decision fill leaves
Filled(f) == [id |-> f.id, goal |-> f.goal, criteria |-> f.criteria,
              alternatives |-> f.alternatives, nextUid |-> f.nextUid]

\* the decision held in the variables
This == [id |-> id, goal |-> goal, criteria |-> criteria,
         alternatives |-> alternatives, nextUid |-> nextUid]

-----------------------------------------------------------------------------
(* Comparison Protocol: Decision.compare *)

\* a reference { id?, name? } handed to compare or remove; given = FALSE is an
\* omitted argument
Ref(refId, refName) == [given |-> TRUE, id |-> refId, name |-> refName]
NoRef == [given |-> FALSE, id |-> NoId, name |-> NoName]

\* a weight handed to compare: the number n, or n + 1/2 when half is TRUE
Num(n) == [n |-> n, half |-> FALSE]
NumAndHalf(n) == [n |-> n, half |-> TRUE]

\* list.find((x) => (ref.id && x.id === ref.id) || (ref.name && x.name === ref.name))
Resolve(list, ref) ==
    FirstIdx(list, LAMBDA x : \/ (ref.id # NoId /\ x.id = ref.id)
                              \/ (ref.name # NoName /\ x.name = ref.name))

\* a check that lets the falsy weight 0 through
WeightInScale_ZeroPasses(weight) == ~weight.half /\ weight.n \in 0..IntensityExtreme

\* !(!weight || typeof Decision.Intensity[weight] === 'undefined')
WeightInScale(weight) ==
    /\ ~(weight.n = 0 /\ ~weight.half)
    /\ ~weight.half
    /\ weight.n \in Intensity

\* a write that keeps a weight recorded earlier
SetWeight_KeepsEarlier(meas, i, w) ==
    [j \in DOMAIN meas |->
        IF j = i /\ meas[j].weight = NoWeight
        THEN [meas[j] EXCEPT !.weight = w]
        ELSE meas[j]]

\* measurement.weight = w, seen through every reference to that object
SetWeight(meas, i, w) ==
    [j \in DOMAIN meas |->
        IF j = i \/ (j > i /\ meas[j].alias /\ meas[j].pairId = meas[i].pairId)
        THEN [meas[j] EXCEPT !.weight = w]
        ELSE meas[j]]

\* a write that reaches the pair's slot under every criterion
WriteSlot_EveryCriterion(x, ci, mi, w) ==
    [x EXCEPT !.comparisons =
        [j \in DOMAIN x.comparisons |->
            [x.comparisons[j] EXCEPT !.measurements = SetWeight(@, mi, w)]]]

\* the write to measurement mi of comparison ci of one item
WriteSlot(x, ci, mi, w) ==
    [x EXCEPT !.comparisons =
        [j \in DOMAIN x.comparisons |->
            IF j = ci \/ (j > ci /\ x.comparisons[j].alias
                             /\ x.comparisons[j].criterionId =
                                    x.comparisons[ci].criterionId)
            THEN [x.comparisons[j] EXCEPT !.measurements = SetWeight(@, mi, w)]
            ELSE x.comparisons[j]]]

\* criterion ? x.comparisons.find((comp) => 'criterionId' in comp &&
\*     comp.criterionId === criterion.id) : x.comparisons[0]
ComparisonIdx(x, critId) ==
    IF critId # NoId
    THEN FirstIdx(x.comparisons, LAMBDA comp : comp.criterionId = critId)
    ELSE IF Len(x.comparisons) >= 1 THEN 1 ELSE 0

\* comparison.measurements.find((m) => m.pairId === other.id)
MeasurementIdx(x, ci, otherId) ==
    IF ci = 0 THEN 0
    ELSE FirstIdx(x.comparisons[ci].measurements, LAMBDA m : m.pairId = otherId)

\* a protocol without reciprocal enforcement
ForceEqual_Skipped(list, pair, pci, pmi) == list

\* pairMeasurement.weight = Decision.Intensity.Equal
ForceEqual(list, pair, pci, pmi) ==
    [list EXCEPT ![pair] = WriteSlot(@, pci, pmi, IntensityEqual)]

\* the decision d with `list` stored as its alternatives (alternative mode) or
\* as its criteria (criterion mode)
WithList(d, altMode, list) ==
    IF altMode THEN [d EXCEPT !.alternatives = list]
    ELSE [d EXCEPT !.criteria = list]

\* what a call returns to the model: the decision it leaves, the error it
\* raised ("" = none) and the positions of the items it resolved (0 = none)
Outcome(d, err, msg, crit, item, pair) ==
    [d |-> d, err |-> err, msg |-> msg, crit |-> crit, item |-> item, pair |-> pair]

\* throw new ValidationError(msg): the decision stays as it is at that point
Thrown(d, msg, crit, item, pair) ==
    Outcome(d, "ValidationError", msg, crit, item, pair)

\* a compare that reads the decision as it finds it
FilledFirst_Skipped(d0) ==
    [id |-> d0.id, goal |-> d0.goal, criteria |-> d0.criteria,
     alternatives |-> d0.alternatives, nextUid |-> d0.nextUid, thrown |-> ""]

\* this.fill() at the start of compare, before any slot is read or written
FilledFirst(d0) == fill(d0)

\* Decision.compare({ item, pair, criterion, weight }) on the decision d0
compare(d0, inputItem, inputPair, criterion, weight) ==
    Let(FilledFirst(d0), LAMBDA f :
    Let(Filled(f), LAMBDA d :
    Let(IF criterion.given THEN Resolve(d.criteria, criterion) ELSE 0, LAMBDA cr :
    Let(IF criterion.given THEN d.alternatives ELSE d.criteria, LAMBDA list :
    Let(Resolve(list, inputItem), LAMBDA item :
    Let(Resolve(list, inputPair), LAMBDA pair :
    Let(IF cr # 0 THEN d.criteria[cr].id ELSE NoId, LAMBDA critId :
        IF f.thrown # ""
        THEN Outcome(d, f.thrown, "fill", 0, 0, 0)
        ELSE IF criterion.given /\ cr = 0
        THEN Thrown(d, "Criterion not found", 0, 0, 0)
        ELSE IF item = 0 \/ pair = 0
        THEN Thrown(d, "Item and/or pair not found", cr, item, pair)
        ELSE IF ~WeightInScale(weight)
        THEN Thrown(d, "The weight should be in the scale", cr, item, pair)
        ELSE
    Let(ComparisonIdx(list[item], critId), LAMBDA ci :
    Let(MeasurementIdx(list[item], ci, list[pair].id), LAMBDA mi :
        IF ci = 0
        THEN Thrown(d, "Unexpected missing comparison", cr, item, pair)
        ELSE IF mi = 0
        THEN Thrown(d, "Unexpected missing measurement", cr, item, pair)
        ELSE
    Let([list EXCEPT ![item] = WriteSlot(@, ci, mi, weight.n)], LAMBDA list1 :
        IF weight.n = IntensityEqual
        THEN Outcome(WithList(d, criterion.given, list1), "", "", cr, item, pair)
        ELSE
    Let(ComparisonIdx(list1[pair], critId), LAMBDA pci :
    Let(MeasurementIdx(list1[pair], pci, list1[item].id), LAMBDA pmi :
        IF pmi = 0
        THEN Thrown(WithList(d, criterion.given, list1),
                    "Unexpected missing measurement", cr, item, pair)
        ELSE Outcome(WithList(d, criterion.given,
                              ForceEqual(list1, pair, pci, pmi)),
                     "", "", cr, item, pair)))))))))))))

-----------------------------------------------------------------------------
(* Add / Remove: Decision.add, Decision.remove *)

\* a record handed to add; given = FALSE is an omitted option
Record(recId, recName, isArr, comparisons) ==
    [given |-> TRUE, id |-> recId, name |-> recName, isArr |-> isArr,
     comparisons |-> comparisons]
\* add({ criterion: 'name' }): typeof options.criterion === 'string'
Named(recName) == Record(NoId, recName, FALSE, <<>>)
NoRecord == [given |-> FALSE, id |-> NoId, name |-> NoName, isArr |-> FALSE,
             comparisons |-> <<>>]

\* { ...criterion }: the copy pushed to the list
Copy(rec) == [id |-> rec.id, name |-> rec.name, isArr |-> rec.isArr,
              comparisons |-> rec.comparisons]

\* an add that never finds the name in the list
NameTaken_Never(list, name) == FALSE

\* list.find((x) => x.name === name)
NameTaken(list, name) == \E k \in DOMAIN list : list[k].name = name

\* list.push({ ...rec }) when the option is given
Pushed(list, rec) == IF rec.given THEN Append(list, Copy(rec)) ELSE list

\* Decision.add({ criterion, alternative }) on the decision d0
add(d0, criterion, alternative) ==
    IF ~(\/ (criterion.given /\ criterion.name # NoName)
         \/ (alternative.given /\ alternative.name # NoName))
    THEN Thrown(d0, "A Criterion or an Alternative should be provided", 0, 0, 0)
    ELSE IF criterion.given /\ NameTaken(d0.criteria, criterion.name)
    THEN Thrown(d0, "A Criterion named already exists", 0, 0, 0)
    ELSE
    Let([d0 EXCEPT !.criteria = Pushed(@, criterion)], LAMBDA d1 :
        IF alternative.given /\ NameTaken(d1.alternatives, alternative.name)
        THEN Thrown(d1, "An Alternative named already exists", 0, 0, 0)
        ELSE
    Let([d1 EXCEPT !.alternatives = Pushed(@, alternative)], LAMBDA d2 :
    Let(fill(d2), LAMBDA f :
        Outcome(Filled(f), f.thrown, IF f.thrown # "" THEN "fill" ELSE "",
                IF criterion.given THEN Len(d2.criteria) ELSE 0,
                IF alternative.given THEN Len(d2.alternatives) ELSE 0, 0))))

\* list.find((x) => (ref.id && x.id === ref.id) || (!ref.id && x.name === ref.name))
\* guarded by  ref && (ref.id || ref.name)
Removed(list, ref) ==
    IF ref.given /\ (ref.id # NoId \/ ref.name # NoName)
    THEN FirstIdx(list, LAMBDA x : \/ (ref.id # NoId /\ x.id = ref.id)
                                   \/ (ref.id = NoId /\ x.name = ref.name))
    ELSE 0

\* a remove that filters nothing out
Without_Nothing(list, removed) == list

\* list.filter((x) => x.id !== removed.id)
Without(list, removed) ==
    IF removed = 0 THEN list
    ELSE SelectSeq(list, LAMBDA x : x.id # list[removed].id)

\* a remove that leaves the slots of the kept items as they are
Refilled_Skipped(d0) ==
    [id |-> d0.id, goal |-> d0.goal, criteria |-> d0.criteria,
     alternatives |-> d0.alternatives, nextUid |-> d0.nextUid, thrown |-> ""]

\* this.fill() at the end of remove
Refilled(d0) == fill(d0)

\* Decision.remove({ criterion, alternative }) on the decision d0
remove(d0, criterion, alternative) ==
    Let(Removed(d0.criteria, criterion), LAMBDA rc :
    Let(Removed(d0.alternatives, alternative), LAMBDA ra :
    Let(Refilled([d0 EXCEPT !.criteria = Without(@, rc),
                        !.alternatives = Without(@, ra)]), LAMBDA f :
        Outcome(Filled(f), f.thrown, IF f.thrown # "" THEN "fill" ELSE "",
                rc, ra, 0))))

-----------------------------------------------------------------------------
(* Reading the decision: Decision.getWeigthsMatrix, Decision.validate *)

\* x.comparisons.find((comp) => comp.criterionId === criterionId)
\*     ?.measurements.find((m) => m.pairId === otherId)?.weight
\* (criterionId = NoId: the criteria dimension); NoWeight stands for undefined
StoredWeight(x, critId, otherId) ==
    LET ci == FirstIdx(x.comparisons, LAMBDA comp : comp.criterionId = critId)
        mi == IF ci = 0 THEN 0
              ELSE FirstIdx(x.comparisons[ci].measurements,
                            LAMBDA m : m.pairId = otherId)
    IN  IF mi = 0 THEN NoWeight ELSE x.comparisons[ci].measurements[mi].weight

\* an entry computed as pairWeight / thingWeight
MatrixEntry_Swapped(thing, pair, critId) ==
    [num |-> StoredWeight(pair, critId, thing.id),
     den |-> StoredWeight(thing, critId, pair.id), thrown |-> FALSE]

\* one entry of getWeigthsMatrix(data, criterionId): the fraction
\* thingWeight / pairWeight as num/den, or thrown ('Unexpected missing weight')
MatrixEntry(thing, pair, critId) ==
    IF thing.id = pair.id
    THEN [num |-> 1, den |-> 1, thrown |-> FALSE]
    ELSE IF \/ StoredWeight(thing, critId, pair.id) = NoWeight
            \/ StoredWeight(pair, critId, thing.id) = NoWeight
    THEN [num |-> 0, den |-> 0, thrown |-> TRUE]
    ELSE [num |-> StoredWeight(thing, critId, pair.id),
          den |-> StoredWeight(pair, critId, thing.id), thrown |-> FALSE]

\* a check that takes any weight a slot holds, in the scale or not
MissingIn_AnyWeight(meas, otherId) ==
    LET mi == FirstIdx(meas, LAMBDA m : m.pairId = otherId)
    IN  mi = 0 \/ meas[mi].weight = NoWeight

\* !measurement || typeof Decision.Intensity[measurement.weight] === 'undefined'
\* for the measurement list.find((m) => m.pairId === otherId)
MissingIn(meas, otherId) ==
    LET mi == FirstIdx(meas, LAMBDA m : m.pairId = otherId)
    IN  mi = 0 \/ meas[mi].weight \notin Intensity

\* the MissingCriterionMeasurement errors of validate, as (criterion, pair)
MissingCriterionMeasurement(d) ==
    {<<d.criteria[i].name, d.criteria[j].name>> : <<i, j>> \in
        {p \in (DOMAIN d.criteria) \X (DOMAIN d.criteria) :
            /\ d.criteria[p[1]].isArr
            /\ Len(d.criteria[p[1]].comparisons) = 1
            /\ d.criteria[p[2]].id # d.criteria[p[1]].id
            /\ MissingIn(d.criteria[p[1]].comparisons[1].measurements,
                         d.criteria[p[2]].id)}}

\* the MissingAlternativeMeasurement errors of validate, as
\* (alternative, pair, criterion)
MissingAlternativeMeasurement(d) ==
    {<<d.alternatives[p[1]].name, d.alternatives[p[2]].name, d.criteria[p[3]].name>> :
     p \in
        {q \in (DOMAIN d.alternatives) \X (DOMAIN d.alternatives) \X (DOMAIN d.criteria) :
            LET a == d.alternatives[q[1]]
                ci == FirstIdx(a.comparisons,
                               LAMBDA comp : comp.criterionId = d.criteria[q[3]].id)
            IN  /\ a.isArr
                /\ Len(a.comparisons) = Len(d.criteria)
                /\ ci # 0
                /\ d.alternatives[q[2]].id # a.id
                /\ MissingIn(a.comparisons[ci].measurements, d.alternatives[q[2]].id)}}

\* const MINIMUM_CHARS = 3; const MINIMUM_ITEMS = 2
MINIMUM_CHARS == 3
MINIMUM_ITEMS == 2

\* String.prototype.length of the goals and names a decision is given
Length(str) ==
    CASE str = "" -> 0
      [] str \in {"Ch", "Ed"} -> 2
      [] str \in {"Exp", "Edu", "Tom", "Zed", "Age", "Ed "} -> 3
      [] str \in {"Frog", "Goal", "Tom "} -> 4
      [] str = "Totals" -> 6
      [] str = "Eagle" -> 5
      [] str = "unknown" -> 7
      [] str = "Squirrel" -> 8
      [] str = "Choose the best animal" -> 22

\* a check that asks for a goal or a name of any length
TooShort_OnlyMissing(str) == str = ""

\* !name || name.length < MINIMUM_CHARS, for a goal or a name
TooShort(str) == str = "" \/ Length(str) < MINIMUM_CHARS

\* Decision.validate on the decision d whose fields criteria and alternatives
\* hold sh.  `thrown` is the error validate ends with ("" = it returns):
\* for (const criterion of this.criteria) throws a TypeError when the field
\* holds a value that is no array.  `errors` is the list validate returns, one
\* record per errors.push(..): the error's name and the positions of the item,
\* of the pair and of the criterion of the loops that pushed it (0 = none).
validate(d, sh) ==
    LET E(nm, i, j, c) == [name |-> nm, item |-> i, pair |-> j, criterion |-> c]
        crits == d.criteria
        alts == d.alternatives
        expected == Len(crits)
        Counted(x) == x.isArr /\ Len(x.comparisons) = expected
        For(a, c) == FirstIdx(alts[a].comparisons,
                              LAMBDA comp : comp.criterionId = crits[c].id)
    IN  [thrown |-> IF sh.criteria = "object" \/ sh.alternatives = "object"
                    THEN "TypeError" ELSE "",
         errors |->
            {e \in {E("MissingDecisionId", 0, 0, 0)} : d.id = NoId}
            \cup {e \in {E("MissingDecisionGoal", 0, 0, 0)} : TooShort(d.goal)}
            \cup {e \in {E("InsufficientCriteria", 0, 0, 0)} :
                    sh.criteria # "list" \/ Len(crits) < MINIMUM_ITEMS}
            \cup {e \in {E("InsufficientAlternatives", 0, 0, 0)} :
                    sh.alternatives # "list" \/ Len(alts) < MINIMUM_ITEMS}
            \cup {E("MissingCriterionId", k, 0, 0) :
                    k \in {i \in DOMAIN crits : crits[i].id = NoId}}
            \cup {E("MissingCriterionName", k, 0, 0) :
                    k \in {i \in DOMAIN crits : TooShort(crits[i].name)}}
            \cup {E("MissingCriterionComparisons", k, 0, 0) :
                    k \in {i \in DOMAIN crits :
                             ~crits[i].isArr \/ Len(crits[i].comparisons) # 1}}
            \cup {E("MissingCriterionMeasurement", p[1], p[2], 0) :
                    p \in {q \in (DOMAIN crits) \X (DOMAIN crits) :
                             /\ crits[q[1]].isArr
                             /\ Len(crits[q[1]].comparisons) = 1
                             /\ crits[q[2]].id # crits[q[1]].id
                             /\ MissingIn(crits[q[1]].comparisons[1].measurements,
                                          crits[q[2]].id)}}
            \cup {E("MissingAlternativeId", k, 0, 0) :
                    k \in {i \in DOMAIN alts : alts[i].id = NoId}}
            \cup {E("MissingAlternativeName", k, 0, 0) :
                    k \in {i \in DOMAIN alts : TooShort(alts[i].name)}}
            \cup {E("MissingAlternativeComparisons", k, 0, 0) :
                    k \in {i \in DOMAIN alts : ~Counted(alts[i])}}
            \cup {E("MissingAlternativeComparison", p[1], 0, p[2]) :
                    p \in {q \in (DOMAIN alts) \X (DOMAIN crits) :
                             Counted(alts[q[1]]) /\ For(q[1], q[2]) = 0}}
            \cup {E("MissingAlternativeMeasurement", p[1], p[2], p[3]) :
                    p \in {q \in (DOMAIN alts) \X (DOMAIN alts) \X (DOMAIN crits) :
                             /\ Counted(alts[q[1]])
                             /\ For(q[1], q[3]) # 0
                             /\ alts[q[2]].id # alts[q[1]].id
                             /\ MissingIn(alts[q[1]].comparisons[For(q[1], q[3])].measurements,
                                          alts[q[2]].id)}}]

-----------------------------------------------------------------------------
(* Evaluation: Decision.assertValid, Decision.evaluate *)

\* a decision that was never evaluated: no priority, no summary
NoResults ==
    [priorities |-> "none", summary |-> FALSE,
     criteria |-> <<>>, local |-> <<>>, overall |-> <<>>,
     recommendedChoice |-> NoName, breakdown |-> <<>>]

\* Decision.assertValid on the decision d whose fields hold sh: the error it
\* ends with ("" = it returns) and the errors the AggregateError carries
assertValid(d, sh) ==
    Let(validate(d, sh), LAMBDA result :
        IF result.thrown # "" THEN [err |-> result.thrown, errors |-> {}]
        ELSE IF result.errors # {} THEN [err |-> "AggregateError", errors |-> result.errors]
        ELSE [err |-> "", errors |-> {}])

\* Decision.getWeigthsMatrix(list, critId) returns: it finds thingWeight and
\* pairWeight for every two items with different ids (critId = NoId: called
\* without criterionId, for the criteria)
MatrixBuilt(list, critId) ==
    \A i, j \in DOMAIN list :
        list[i].id # list[j].id =>
            /\ StoredWeight(list[i], critId, list[j].id) # NoWeight
            /\ StoredWeight(list[j], critId, list[i].id) # NoWeight

\* The numbers of the evaluation are kept as fractions num/den with den > 0.
\* a + b,  a * b,  a / b
Plus(a, b) ==
    IF a.den = b.den THEN [num |-> a.num + b.num, den |-> a.den]
    ELSE [num |-> a.num * b.den + b.num * a.den, den |-> a.den * b.den]
Times(a, b) == [num |-> a.num * b.num, den |-> a.den * b.den]
Over(a, b) == [num |-> a.num * b.den, den |-> a.den * b.num]

\* vector.reduce((acc, curr) => acc + curr, 0)
RECURSIVE Total(_)
Total(vector) ==
    IF vector = <<>> THEN [num |-> 0, den |-> 1]
    ELSE Plus(Total(SubSeq(vector, 1, Len(vector) - 1)), vector[Len(vector)])

\* Decision.getWeigthsMatrix(data, critId): a row per item and in it an entry
\* per item, both in the order of data
getWeigthsMatrix(data, critId) ==
    [i \in DOMAIN data |->
        [j \in DOMAIN data |-> MatrixEntry(data[i], data[j], critId)]]

\* eig(matrix).eigenvectors.right.slice(0, matrix.length): the eigenvector of
\* the largest eigenvalue.  With entries thingWeight / pairWeight every matrix
\* of two items, and every matrix of consistent judgments, has its first
\* column as that eigenvector.
eig(matrix) ==
    [i \in DOMAIN matrix |-> [num |-> matrix[i][1].num, den |-> matrix[i][1].den]]

\* a vector left as eig returns it
getRightEigenvector_Unscaled(matrix) == eig(matrix)

\* Decision.getRightEigenvector(matrix): scale = 1 / sum, p * scale
getRightEigenvector(matrix) ==
    LET vector == eig(matrix)
    IN  [i \in DOMAIN vector |-> Over(vector[i], Total(vector))]

\* the greatest common divisor of a and b > 0, and the fraction in lowest terms
RECURSIVE GCD(_, _)
GCD(a, b) == IF a = 0 THEN b ELSE GCD(b % a, a)
Lowest(x) == [num |-> x.num \div GCD(x.num, x.den), den |-> x.den \div GCD(x.num, x.den)]

\* an aggregation that adds to the priority an earlier evaluate left
RECURSIVE Priority_Accumulated(_, _, _, _, _)
Priority_Accumulated(prior, crit, local, a, k) ==
    IF k = 0 THEN (IF a \in DOMAIN prior THEN Lowest(prior[a]) ELSE [num |-> 0, den |-> 1])
    ELSE Plus(Priority_Accumulated(prior, crit, local, a, k - 1),
              Times(local[k][a], crit[k]))

\* alternative.priority after the criteria 1..k are processed, prior being
\* the priorities before the call: set to 0 under the first criterion, then
\* alternative.priority += comparison.priority * criterion.priority
RECURSIVE Priority(_, _, _, _, _)
Priority(prior, crit, local, a, k) ==
    IF k = 0 THEN (IF a \in DOMAIN prior THEN prior[a] ELSE [num |-> 0, den |-> 1])
    ELSE Plus(IF k = 1 THEN [num |-> 0, den |-> 1]
              ELSE Priority(prior, crit, local, a, k - 1),
              Times(local[k][a], crit[k]))

\* the positions 1..n in the order a stable sort with the comparator
\* (a, b) => b.priority - a.priority leaves them: a position goes behind
\* every position whose priority is not lower
RECURSIVE SortedPositions(_, _)
SortedPositions(n, prio) ==
    IF n = 0 THEN <<>>
    ELSE LET before == SortedPositions(n - 1, prio)
             ahead == {k \in DOMAIN before :
                          prio[before[k]].num * prio[n].den
                              >= prio[n].num * prio[before[k]].den}
             at == IF \A k \in DOMAIN before : k \in ahead THEN Len(before)
                   ELSE (CHOOSE k \in DOMAIN before :
                            k \notin ahead /\ \A l \in 1..(k - 1) : l \in ahead) - 1
         IN  SubSeq(before, 1, at) \o <<n>> \o SubSeq(before, at + 1, Len(before))

\* a sort that orders the list it is called on, as Array.prototype.sort does
toSorted_InPlace(list, prio) ==
    LET order == SortedPositions(Len(list), prio)
    IN  [result |-> [k \in DOMAIN list |-> list[order[k]]],
         receiver |-> [k \in DOMAIN list |-> list[order[k]]]]

\* list.toSorted((a, b) => b.priority - a.priority): the sorted copy and the
\* list it was called on
toSorted(list, prio) ==
    LET order == SortedPositions(Len(list), prio)
    IN  [result |-> [k \in DOMAIN list |-> list[order[k]]], receiver |-> list]

\* formatAsTable(decision, precision = 3)
precision == 3

\* parseFloat(value.toFixed(precision)), in units of 10^-precision
round(value) == (2 * (10 ^ precision) * value.num + value.den) \div (2 * value.den)

\* Object.fromEntries(entries): of two entries with one key the later stays
fromEntries(entries) ==
    [key \in {entries[k][1] : k \in DOMAIN entries} |->
        entries[CHOOSE k \in DOMAIN entries :
                    /\ entries[k][1] = key
                    /\ \A l \in DOMAIN entries : entries[l][1] = key => l <= k][2]]

\* Decision.formatAsTable: a row per alternative under its name, with a cell
\* per criterion under its name and the cell 'Goal', and the row 'Totals'
\* with the sum of every column; the cells are in units of 10^-precision
formatAsTable(d, crit, local, overall) ==
    LET rows == [a \in DOMAIN d.alternatives |->
                    <<d.alternatives[a].name,
                      fromEntries([c \in DOMAIN d.criteria |->
                                      <<d.criteria[c].name,
                                        round(Times(local[c][a], crit[c]))>>]
                                  \o <<<<"Goal", round(overall[a])>>>>)>>]
        footer == <<"Totals",
                    [key \in DOMAIN rows[1][2] |->
                        round(Total([r \in DOMAIN rows |->
                                        [num |-> rows[r][2][key],
                                         den |-> 10 ^ precision]]))]>>
    IN  fromEntries(Append(rows, footer))

\* an evaluate that writes the priorities of the criteria before it asserts
\* that the decision is valid
evaluate_WritesFirst(d, sh, res) ==
    [err |-> assertValid(d, sh).err, msg |-> "", errors |-> assertValid(d, sh).errors,
     alternatives |-> d.alternatives,
     results |-> [res EXCEPT !.priorities = IF @ = "all" THEN "all" ELSE "some"]]

\* Decision.evaluate on the decision d whose fields hold sh, with the results
\* res of earlier calls: the error it ends with, the errors an AggregateError
\* carries and the results it leaves.  criterion.priority is written before
\* the matrix of the alternatives under the criterion is built, the summary
\* after the loops.  alternative.priority is set to 0 under the first
\* criterion, so 'Unexpected missing priority' is not thrown.  The numbers
\* in the results are those of the last call that returned.
evaluate(d, sh, res) ==
    Let(assertValid(d, sh), LAMBDA asserted :
    Let(FirstIdx(d.criteria, LAMBDA c : ~MatrixBuilt(d.alternatives, c.id)), LAMBDA failing :
        IF asserted.err # ""
        THEN [err |-> asserted.err, msg |-> "", errors |-> asserted.errors,
              alternatives |-> d.alternatives, results |-> res]
        ELSE IF ~MatrixBuilt(d.criteria, NoId)
        THEN [err |-> "ValidationError", msg |-> "Unexpected missing weight",
              errors |-> {}, alternatives |-> d.alternatives, results |-> res]
        ELSE IF failing # 0
        THEN [err |-> "ValidationError", msg |-> "Unexpected missing weight",
              errors |-> {}, alternatives |-> d.alternatives,
              results |-> [res EXCEPT !.priorities = IF @ = "all" THEN "all" ELSE "some"]]
        ELSE
    Let(getRightEigenvector(getWeigthsMatrix(d.criteria, NoId)), LAMBDA criteriaResult :
    Let([c \in DOMAIN d.criteria |->
            getRightEigenvector(getWeigthsMatrix(d.alternatives, d.criteria[c].id))],
        LAMBDA result :
    Let([a \in DOMAIN d.alternatives |->
            Priority(res.overall, criteriaResult, result, a, Len(d.criteria))],
        LAMBDA priority :
    Let(toSorted(d.alternatives, priority), LAMBDA sorted :
             [err |-> "", msg |-> "", errors |-> {},
              alternatives |-> sorted.receiver,
              results |->
                  [priorities |-> "all", summary |-> TRUE,
                   criteria |-> criteriaResult, local |-> result,
                   overall |-> priority,
                   recommendedChoice |-> sorted.result[1].name,
                   breakdown |->
                       formatAsTable(d, criteriaResult, result, priority)]]))))))

\* the ids and the names of a list of items, in order
IdsOf(list) == [k \in DOMAIN list |-> list[k].id]
NamesOf(list) == [k \in DOMAIN list |-> list[k].name]
IdSet(list) == {list[k].id : k \in DOMAIN list}

-----------------------------------------------------------------------------
(* The calls a client makes *)

\* new Decision({ uid }): this.uid = uid; this.fill()
Constructed ==
    Filled(fill([id |-> NoId, goal |-> NoGoal, criteria |-> <<>>,
                 alternatives |-> <<>>, nextUid |-> 1]))

\* JSON.parse(JSON.stringify(x)) of a list of items: every object is written
\* out where it is referenced, so shared objects come back as separate ones;
\* a measurement without weight is written without the key and read back
\* without it
JsonMeasurements(meas) == [k \in DOMAIN meas |-> [meas[k] EXCEPT !.alias = FALSE]]
JsonItems(list) ==
    [k \in DOMAIN list |->
        [list[k] EXCEPT !.comparisons =
            [j \in DOMAIN list[k].comparisons |->
                [list[k].comparisons[j] EXCEPT
                    !.alias = FALSE, !.measurements = JsonMeasurements(@)]]]]

\* Decision.from(data): new Decision(); Object.assign(decision, obj); fill().
\* A key that data does not carry (NoId, NoGoal) keeps the constructor's value.
from(data) ==
    Let(Constructed, LAMBDA decision :
        fill([id |-> IF data.id # NoId THEN data.id ELSE decision.id,
              goal |-> IF data.goal # NoGoal THEN data.goal ELSE decision.goal,
              criteria |-> JsonItems(data.criteria),
              alternatives |-> JsonItems(data.alternatives),
              nextUid |-> decision.nextUid]))

\* an item of loaded data: { id, name }
Bare(itemId, itemName) ==
    [id |-> itemId, name |-> itemName, isArr |-> FALSE, comparisons |-> <<>>]

\* the data the client starts from: nothing (new Decision()), or two criteria
\* and two alternatives that carry ids, as in the export test
NoData == [id |-> NoId, goal |-> NoGoal, criteria |-> <<>>, alternatives |-> <<>>]
TwoByTwo == [id |-> 100, goal |-> "Choose the best animal",
             criteria |-> <<Bare(101, "Exp"), Bare(102, "Edu")>>,
             alternatives |-> <<Bare(103, "Tom"), Bare(104, "Exp")>>]
InitialData == {NoData, TwoByTwo}

\* the record of a call: what was called, how it ended, the positions it
\* resolved, the weight given, whether criterion, item and pair resolved
\* (resolved) and did so to two different items (distinct), whether the name
\* given to add was in use (taken), and the two weights of the pair before a
\* compare wrote them; for validate, n is the number of errors it returned.
\* judged holds the pairs, as (criterion id, ids of the two items), for which
\* the compare calls made in a row up to this call recorded a weight above 1;
\* again tells that an evaluate followed an evaluate that returned; gone holds
\* the id and the name of the criterion and of the alternative a remove took
\* out, and back tells that an add handed in, right after that remove, a bare
\* record with that id and that name ("criterion", "alternative", "" = neither);
\* for remove, n is the number of weights the call discarded, and the add that
\* brings the item back keeps that number
NoCall == [op |-> "new", err |-> "", msg |-> "", crit |-> 0, item |-> 0, pair |-> 0,
           n |-> 0, half |-> FALSE, resolved |-> FALSE, distinct |-> FALSE,
           taken |-> FALSE, beforeItem |-> NoWeight, beforePair |-> NoWeight,
           judged |-> {}, again |-> FALSE,
           gone |-> [crit |-> <<NoId, NoName>>, item |-> <<NoId, NoName>>],
           back |-> ""]

\* no interactive run: phase and steps as run sets them before its first
\* prompt; `at` is the prompt awaited ("none": no run was started), cur the
\* criterion, the candidate and the other candidate of the loops (positions),
\* weaker and stronger the items of the pair being asked, prompts the prompts
\* made, ended the phaseStep and phaseSteps each comparison phase ended with,
\* err the error the run ended with
NoRun ==
    [phase |-> 1, phaseStep |-> 1, phaseSteps |-> 3,
     at |-> "none", cur |-> <<0, 0, 0>>, weaker |-> 0, stronger |-> 0,
     prompts |-> <<>>, ended |-> <<>>, err |-> ""]

\* the decision is the one the variables hold
Holds(d) ==
    /\ shape = Arrays
    /\ results = NoResults
    /\ id = d.id
    /\ goal = d.goal
    /\ criteria = d.criteria
    /\ alternatives = d.alternatives
    /\ nextUid = d.nextUid

\* the client starts with new Decision() or with Decision.from(data)
Init ==
    /\ \E data \in InitialData : Holds(Filled(from(data)))
    /\ compares = 0
    /\ runState = NoRun
    /\ last = NoCall

\* the call leaves the decision out.d
Commit(out) ==
    /\ id' = out.d.id
    /\ goal' = out.d.goal
    /\ criteria' = out.d.criteria
    /\ alternatives' = out.d.alternatives
    /\ nextUid' = out.d.nextUid
    /\ UNCHANGED results

\* the counter generator has values left for the ids the decision needs
UidsLeft(d) == d.nextUid + FillUids(d) - 1 <= MaxUid

\* the number of slots of the list that hold a weight
Weights(list) ==
    Cardinality(UNION {UNION {{<<k, j, m>> :
                                 m \in {i \in DOMAIN list[k].comparisons[j].measurements :
                                          list[k].comparisons[j].measurements[i].weight
                                              # NoWeight}} :
                              j \in DOMAIN list[k].comparisons} : k \in DOMAIN list})

\* the id and the name of the k-th item of the list (k = 0: of none)
IdAndName(list, k) ==
    IF k = 0 THEN <<NoId, NoName>> ELSE <<list[k].id, list[k].name>>

\* the record is bare and carries the id and the name of the item just removed
Back(rec, other, gone) ==
    /\ last.op = "remove" /\ last.err = ""
    /\ rec.given /\ ~other.given
    /\ rec.id # NoId /\ rec.comparisons = <<>>
    /\ <<rec.id, rec.name>> = gone

\* this.criteria.find and this.alternatives.find throw a TypeError when the
\* field is no array; the criterion is pushed before the alternatives are read
Add(criterion, alternative) ==
    \E valid \in {\/ criterion.given /\ criterion.name # NoName
                  \/ alternative.given /\ alternative.name # NoName} :
    \E out \in {IF valid /\ criterion.given /\ shape.criteria # "list"
                THEN Outcome(This, "TypeError", "find", 0, 0, 0)
                ELSE IF valid /\ alternative.given /\ shape.alternatives # "list"
                        /\ ~(criterion.given /\ NameTaken(criteria, criterion.name))
                THEN Outcome([This EXCEPT !.criteria = Pushed(@, criterion)],
                             "TypeError", "find", 0, 0, 0)
                ELSE add(This, criterion, alternative)} :
        /\ UidsLeft(out.d)
        /\ Commit(out)
        /\ shape' = IF out.err = "" \/ out.msg = "fill" THEN Arrays ELSE shape
        /\ UNCHANGED <<compares, runState>>
        /\ last' = [NoCall EXCEPT
               !.op = "add", !.err = out.err, !.msg = out.msg,
               !.crit = out.crit, !.item = out.item,
               !.n = IF \/ Back(criterion, alternative, last.gone.crit)
                        \/ Back(alternative, criterion, last.gone.item)
                     THEN last.n ELSE 0,
               !.back = IF Back(criterion, alternative, last.gone.crit) THEN "criterion"
                        ELSE IF Back(alternative, criterion, last.gone.item)
                        THEN "alternative" ELSE "",
               !.taken =
                   \/ criterion.given /\
                        \E k \in DOMAIN criteria : criteria[k].name = criterion.name
                   \/ alternative.given /\
                        \E k \in DOMAIN alternatives :
                            alternatives[k].name = alternative.name]

\* the priorities that stay when the items with the id of the removed one
\* leave the list: a priority is a field of its item (of its comparison),
\* and the items added after the last evaluate carry none
WithoutPriority(prio, list, removed) ==
    IF removed = 0 THEN prio
    ELSE LET kept == SelectSeq([k \in DOMAIN prio |-> <<list[k].id, prio[k]>>],
                               LAMBDA z : z[1] # list[removed].id)
         IN  [k \in DOMAIN kept |-> kept[k][2]]

Remove(criterion, alternative) ==
    \E out \in {remove(This, criterion, alternative)} :
        /\ UidsLeft(out.d)
        /\ id' = out.d.id
        /\ goal' = out.d.goal
        /\ criteria' = out.d.criteria
        /\ alternatives' = out.d.alternatives
        /\ nextUid' = out.d.nextUid
        /\ results' =
               [results EXCEPT
                   !.criteria = WithoutPriority(@, criteria, out.crit),
                   !.overall = WithoutPriority(@, alternatives, out.item),
                   !.local =
                       LET rows == WithoutPriority(@, criteria, out.crit)
                       IN  [c \in DOMAIN rows |->
                               WithoutPriority(rows[c], alternatives, out.item)]]
        /\ shape' = Arrays
        /\ UNCHANGED <<compares, runState>>
        /\ last' = [NoCall EXCEPT !.op = "remove", !.err = out.err, !.msg = out.msg,
                                  !.crit = out.crit, !.item = out.item,
                                  !.n = Weights(criteria) + Weights(alternatives)
                                            - Weights(out.d.criteria)
                                            - Weights(out.d.alternatives),
                                  !.gone = [crit |-> IdAndName(criteria, out.crit),
                                            item |-> IdAndName(alternatives, out.item)]]

\* the weight x holds for y before the call, once the structure is complete
Before(pre, out, x, y) ==
    LET list == IF out.crit # 0 THEN pre.alternatives ELSE pre.criteria
        critId == IF out.crit # 0 THEN pre.criteria[out.crit].id ELSE NoId
    IN  StoredWeight(list[x], critId, list[y].id)

Compare(item, pair, criterion, weight, budget) ==
    /\ compares < budget
    /\ \E out \in {compare(This, item, pair, criterion, weight)},
          pre \in {Filled(fill(This))} :
       \E resolved \in {out.item # 0 /\ out.pair # 0 /\ (criterion.given => out.crit # 0)} :
        /\ UidsLeft(out.d)
        /\ Commit(out)
        /\ shape' = Arrays
        /\ compares' = compares + 1
        /\ UNCHANGED runState
        /\ last' = IF out.err # ""
                   THEN [NoCall EXCEPT !.op = "compare", !.err = out.err,
                                       !.msg = out.msg,
                                       !.n = IF resolved THEN weight.n ELSE 0,
                                       !.half = resolved /\ weight.half,
                                       !.resolved = resolved,
                                       !.distinct = resolved /\ out.item # out.pair,
                                       !.judged = last.judged]
                   ELSE [NoCall EXCEPT !.op = "compare",
                                       !.crit = out.crit, !.item = out.item,
                                       !.pair = out.pair,
                                       !.n = weight.n, !.half = weight.half,
                                       !.resolved = TRUE,
                                       !.distinct = out.item # out.pair,
                                       !.beforeItem = Before(pre, out, out.item, out.pair),
                                       !.beforePair = Before(pre, out, out.pair, out.item),
                                       !.judged =
                                           IF weight.n = IntensityEqual THEN last.judged
                                           ELSE last.judged \cup
                                                {<<IF out.crit # 0
                                                   THEN out.d.criteria[out.crit].id
                                                   ELSE NoId,
                                                   {(IF out.crit # 0 THEN out.d.alternatives
                                                     ELSE out.d.criteria)[k].id :
                                                        k \in {out.item, out.pair}}>>}]

-----------------------------------------------------------------------------
(* Spec: a client that names items (add by name, remove by name or by id,    *)
(* compare by name)                                                          *)

\* the references a client can make to the items of a list
RefsTo(list, names) ==
    {Ref(i, NoName) : i \in (IdSet(list) \ {NoId}) \cup {UnknownId}}
        \cup {Ref(NoId, nm) : nm \in names \cup {UnknownName}}

\* the references a client makes by name; a name that no item of the list
\* carries at the time of the call is a reference that does not resolve
NameRefs(names) == {Ref(NoId, nm) : nm \in names}

\* the weights the client tries: in the scale up to MaxWeight, and 0
TriedWeights == {Num(n) : n \in 0..MaxWeight}

AddCriterion == \E nm \in CriterionNames : Add(Named(nm), NoRecord)

AddAlternative == \E nm \in AlternativeNames : Add(NoRecord, Named(nm))

AddBoth ==
    \E cn \in CriterionNames, an \in AlternativeNames : Add(Named(cn), Named(an))

RemoveCriterion ==
    \E ref \in RefsTo(criteria, CriterionNames) : Remove(ref, NoRef)

RemoveAlternative ==
    \E ref \in RefsTo(alternatives, AlternativeNames) : Remove(NoRef, ref)

CompareCriteria ==
    \E item \in NameRefs(CriterionNames),
       pair \in NameRefs(CriterionNames),
       weight \in TriedWeights :
        Compare(item, pair, NoRef, weight, MaxCompares)

CompareAlternatives ==
    \E item \in NameRefs(AlternativeNames),
       pair \in NameRefs(AlternativeNames),
       criterion \in NameRefs(CriterionNames),
       weight \in TriedWeights :
        Compare(item, pair, criterion, weight, MaxCompares)

Next ==
    \/ AddCriterion
    \/ AddAlternative
    \/ AddBoth
    \/ RemoveCriterion
    \/ RemoveAlternative
    \/ CompareCriteria
    \/ CompareAlternatives

Spec == Init /\ [][Next]_vars

-----------------------------------------------------------------------------
(* SpecScale: a client that compares the items of the loaded decision with   *)
(* every kind of weight                                                      *)

\* integers from below the scale to above it, and numbers that are no integers
AnyWeights ==
    {Num(n) : n \in (0 - Beyond)..(IntensityExtreme + Beyond)}
        \cup {NumAndHalf(n) : n \in {0, IntensityEqual, IntensityExtreme}}

WeighCriteria ==
    \E item \in NameRefs(CriterionNames),
       pair \in NameRefs(CriterionNames),
       weight \in AnyWeights :
        Compare(item, pair, NoRef, weight, MaxCompares)

WeighAlternatives ==
    \E item \in NameRefs(AlternativeNames),
       pair \in NameRefs(AlternativeNames),
       criterion \in NameRefs(CriterionNames),
       weight \in AnyWeights :
        Compare(item, pair, criterion, weight, MaxCompares)

NextScale ==
    \/ WeighCriteria
    \/ WeighAlternatives

SpecScale == Init /\ [][NextScale]_vars

-----------------------------------------------------------------------------
(* SpecDirect: a client that also appends items to the public sequences      *)
(* without calling fill, as in  decision.criteria.push({ name })             *)

\* the names of the items appended directly
PushedNames == {"Zed"}

\* decision.criteria.push({ name: nm }) / decision.alternatives.push({ name: nm })
Push(toCriteria, nm) ==
    /\ ~NameTaken(IF toCriteria THEN criteria ELSE alternatives, nm)
    /\ UidsLeft([This EXCEPT !.criteria =
                    IF toCriteria THEN Append(@, Bare(NoId, nm)) ELSE @])
    /\ criteria' = IF toCriteria THEN Append(criteria, Bare(NoId, nm)) ELSE criteria
    /\ alternatives' = IF toCriteria THEN alternatives
                       ELSE Append(alternatives, Bare(NoId, nm))
    /\ UNCHANGED <<id, goal, nextUid, shape, results, compares, runState>>
    /\ last' = [NoCall EXCEPT !.op = "push"]

PushCriterion == \E nm \in PushedNames : Push(TRUE, nm)

PushAlternative == \E nm \in PushedNames : Push(FALSE, nm)

\* decision.fill()
Fill ==
    \E f \in {fill(This)} :
        /\ UidsLeft(Filled(f))
        /\ Commit([d |-> Filled(f)])
        /\ shape' = Arrays
        /\ UNCHANGED <<compares, runState>>
        /\ last' = [NoCall EXCEPT !.op = "fill", !.err = f.thrown]

\* NextDirect and SpecDirect follow the calls they use, below

-----------------------------------------------------------------------------
(* SpecRec: a client that hands records to add (with an id of its own, an    *)
(* alternative also with a comparison list) and loads data that carries a    *)
(* comparison list                                                           *)

\* ids the callers put in the records they hand to add
CallerIds == {101}

\* a weight carried by a record
CarriedWeight == 3

\* [{ criterionId, measurements: [{ pairId, weight }] }]
Carried(critId, pairId) ==
    <<[criterionId |-> critId,
       measurements |-> <<[pairId |-> pairId, weight |-> CarriedWeight,
                           alias |-> FALSE]>>,
       alias |-> FALSE]>>

\* the loaded data of the export test, whose first alternative carries a list
\* with one slot: for itself
StaleData ==
    [TwoByTwo EXCEPT !.alternatives[1] =
        [@ EXCEPT !.isArr = TRUE,
                  !.comparisons = Carried(TwoByTwo.criteria[1].id,
                                          TwoByTwo.alternatives[1].id)]]

InitRec ==
    /\ \E data \in {NoData, StaleData} : Holds(Filled(from(data)))
    /\ compares = 0
    /\ runState = NoRun
    /\ last = NoCall

AddCriterionRecord ==
    \E i \in CallerIds \cup {NoId}, nm \in CriterionNames :
        Add(Record(i, nm, FALSE, <<>>), NoRecord)

AddAlternativeRecord ==
    \E i \in CallerIds \cup {NoId}, nm \in AlternativeNames :
        \/ Add(NoRecord, Record(i, nm, FALSE, <<>>))
        \/ \E c \in IdSet(criteria) \ {NoId} :
               Add(NoRecord, Record(i, nm, TRUE, Carried(c, UnknownId)))

RemoveCriterionByName ==
    \E ref \in NameRefs(CriterionNames) :
        /\ Removed(criteria, ref) # 0
        /\ Remove(ref, NoRef)

RemoveAlternativeByName ==
    \E ref \in NameRefs(AlternativeNames) :
        /\ Removed(alternatives, ref) # 0
        /\ Remove(NoRef, ref)

\* the one weight this client compares with
JudgedWeight == 2

JudgeCriteria ==
    \E item \in NameRefs(CriterionNames), pair \in NameRefs(CriterionNames) :
        Compare(item, pair, NoRef, Num(JudgedWeight), MaxCompares - 1)

JudgeAlternatives ==
    \E item \in NameRefs(AlternativeNames),
       pair \in NameRefs(AlternativeNames),
       criterion \in NameRefs(CriterionNames) :
        Compare(item, pair, criterion, Num(JudgedWeight), MaxCompares - 1)

NextRec ==
    \/ AddCriterionRecord
    \/ AddAlternativeRecord
    \/ RemoveCriterionByName
    \/ RemoveAlternativeByName
    \/ JudgeCriteria
    \/ JudgeAlternatives

SpecRec == InitRec /\ [][NextRec]_vars

-----------------------------------------------------------------------------
(* SpecRemove: a client that loads three criteria and three alternatives,    *)
(* as the removal tests do, records judgments and removes items              *)

\* the data of the test 'when removing a criterion'
ThreeByThree ==
    [id |-> NoId, goal |-> NoGoal,
     criteria |-> <<Bare(201, "Exp"), Bare(202, "Age"), Bare(203, "Edu")>>,
     alternatives |-> <<Bare(204, "Frog"), Bare(205, "Squirrel"), Bare(206, "Eagle")>>]

InitRemove ==
    /\ Holds(Filled(from(ThreeByThree)))
    /\ compares = 0
    /\ runState = NoRun
    /\ last = NoCall

\* references by the names the items of the list carry at the time of the call
Carriers(list) == NameRefs({list[k].name : k \in DOMAIN list})

RecordCriteria ==
    \E item \in Carriers(criteria) :
        \E pair \in Carriers(criteria) \ {item} :
            Compare(item, pair, NoRef, Num(JudgedWeight), MaxCompares)

RecordAlternatives ==
    \E item \in Carriers(alternatives), criterion \in Carriers(criteria) :
        \E pair \in Carriers(alternatives) \ {item} :
            Compare(item, pair, criterion, Num(JudgedWeight), MaxCompares)

RemoveLoadedCriterion ==
    \E ref \in RefsTo(criteria, {}) : Remove(ref, NoRef)

RemoveLoadedAlternative ==
    \E ref \in RefsTo(alternatives, {}) : Remove(NoRef, ref)

NextRemove ==
    \/ RecordCriteria
    \/ RecordAlternatives
    \/ RemoveLoadedCriterion
    \/ RemoveLoadedAlternative

SpecRemove == InitRemove /\ [][NextRemove]_vars

-----------------------------------------------------------------------------
(* SpecPartial: a client that assigns to the fields of a loaded decision, as *)
(* the tests do (delete decision.criteria, delete criterion.comparisons,     *)
(* decision.id = undefined), and then calls fill, add and validate           *)

\* the decision of the validate test: two criteria, two alternatives and a
\* judgment for every pair
Judged ==
    Let(Filled(from(TwoByTwo)), LAMBDA d0 :
    Let(compare(d0, Ref(NoId, "Exp"), Ref(NoId, "Edu"), NoRef, Num(JudgedWeight)).d,
        LAMBDA d1 :
    Let(compare(d1, Ref(NoId, "Tom"), Ref(NoId, "Exp"), Ref(NoId, "Exp"),
                Num(JudgedWeight)).d, LAMBDA d2 :
        compare(d2, Ref(NoId, "Exp"), Ref(NoId, "Tom"), Ref(NoId, "Edu"),
                Num(JudgedWeight)).d)))

\* the assignments the client makes, in the order they are applied: to the
\* decision, to its first criterion, to its first alternative, to the lists
Assignments ==
    <<<<"decision", "id">>, <<"decision", "goal">>,
      <<"criterion", "id">>, <<"criterion", "name">>,
      <<"criterion", "comparisons absent">>, <<"criterion", "comparisons empty">>,
      <<"criterion", "comparisons more">>,
      <<"criterion", "weight absent">>, <<"criterion", "weight beyond">>,
      <<"criterion", "comparison keyed">>,
      <<"alternative", "id">>, <<"alternative", "name">>,
      <<"alternative", "comparisons absent">>, <<"alternative", "comparisons empty">>,
      <<"alternative", "comparisons more">>,
      <<"alternative", "weight absent">>, <<"alternative", "weight beyond">>,
      <<"criteria", "absent">>, <<"criteria", "object">>,
      <<"alternatives", "absent">>, <<"alternatives", "object">>>>

\* the number of assignments made to one decision
MaxAssignments == 2

\* the item x after  x.id = undefined,  x.name = 'Ed',  delete x.comparisons,
\* x.comparisons = [],  x.comparisons.push({ measurements: [] }),
\* x.comparisons[0].criterionId = '999',
\* delete measurement.weight  or  measurement.weight = 10  on its first slot
AssignedItem(x, what) ==
    CASE what = "id" -> [x EXCEPT !.id = NoId]
      [] what = "name" -> [x EXCEPT !.name = "Ed"]
      [] what = "comparisons absent" -> [x EXCEPT !.isArr = FALSE, !.comparisons = <<>>]
      [] what = "comparisons empty" -> [x EXCEPT !.isArr = TRUE, !.comparisons = <<>>]
      [] what = "comparisons more" ->
            [x EXCEPT !.comparisons =
                Append(@, [criterionId |-> NoId, measurements |-> <<>>, alias |-> FALSE])]
      [] what = "comparison keyed" ->
            IF x.comparisons = <<>> THEN x
            ELSE [x EXCEPT !.comparisons[1].criterionId = UnknownId]
      [] what = "weight absent" ->
            IF x.comparisons = <<>> THEN x
            ELSE [x EXCEPT !.comparisons[1].measurements[1].weight = NoWeight]
      [] what = "weight beyond" ->
            IF x.comparisons = <<>> THEN x
            ELSE [x EXCEPT !.comparisons[1].measurements[1].weight =
                               IntensityExtreme + Beyond]

\* the decision r.d, whose fields hold r.shape, after the assignment a
Assigned(r, a) ==
    CASE a = <<"decision", "id">> -> [r EXCEPT !.d.id = NoId]
      [] a = <<"decision", "goal">> -> [r EXCEPT !.d.goal = "Ch"]
      [] a[1] = "criterion" -> [r EXCEPT !.d.criteria[1] = AssignedItem(@, a[2])]
      [] a[1] = "alternative" -> [r EXCEPT !.d.alternatives[1] = AssignedItem(@, a[2])]
      [] a[1] = "criteria" -> [r EXCEPT !.d.criteria = <<>>, !.shape.criteria = a[2]]
      [] a[1] = "alternatives" ->
            [r EXCEPT !.d.alternatives = <<>>, !.shape.alternatives = a[2]]

\* the decision after the assignments numbered `chosen`, from the k-th on
RECURSIVE Partial(_, _, _)
Partial(r, chosen, k) ==
    IF k > Len(Assignments) THEN r
    ELSE Partial(IF k \in chosen THEN Assigned(r, Assignments[k]) ELSE r, chosen, k + 1)

InitPartial ==
    /\ \E chosen \in {c \in SUBSET (DOMAIN Assignments) : Cardinality(c) <= MaxAssignments} :
       \E r \in {Partial([d |-> Judged, shape |-> Arrays], chosen, 1)} :
            /\ id = r.d.id
            /\ goal = r.d.goal
            /\ criteria = r.d.criteria
            /\ alternatives = r.d.alternatives
            /\ nextUid = r.d.nextUid
            /\ shape = r.shape
            /\ results = NoResults
    /\ compares = 0
    /\ runState = NoRun
    /\ last = NoCall

\* decision.add({ criterion: 'Age' }), decision.add({ alternative: 'Age' })
AddOneMore ==
    \E toCriteria \in BOOLEAN :
        Add(IF toCriteria THEN Named("Age") ELSE NoRecord,
            IF toCriteria THEN NoRecord ELSE Named("Age"))

\* decision.validate(): the decision stays as it is; the call is recorded with
\* the error it threw and the number of errors it returned
Validate ==
    \E v \in {validate(This, shape)} :
        /\ last' = [NoCall EXCEPT !.op = "validate", !.err = v.thrown,
                                  !.n = IF v.thrown = "" THEN Cardinality(v.errors) ELSE 0]
        /\ UNCHANGED <<id, goal, criteria, alternatives, nextUid, shape, results, compares,
                       runState>>

\* decision.evaluate(): the decision stays as it is but for the results; the
\* call is recorded with the error it threw and the number of errors the
\* AggregateError carried
Evaluate ==
    \E out \in {evaluate(This, shape, results)} :
        /\ results' = out.results
        /\ alternatives' = out.alternatives
        /\ last' = [NoCall EXCEPT !.op = "evaluate", !.err = out.err, !.msg = out.msg,
                                  !.n = Cardinality(out.errors),
                                  !.again = last.op = "evaluate" /\ last.err = ""]
        /\ UNCHANGED <<id, goal, criteria, nextUid, shape, compares, runState>>

\* SpecDirect: direct appends, fill, compare by name, validate and evaluate
NextDirect ==
    \/ PushCriterion
    \/ PushAlternative
    \/ Fill
    \/ CompareCriteria
    \/ CompareAlternatives
    \/ RecordCriteria
    \/ RecordAlternatives
    \/ Validate
    \/ Evaluate

SpecDirect == Init /\ [][NextDirect]_vars

NextPartial ==
    \/ Fill
    \/ AddOneMore
    \/ Validate
    \/ Evaluate

SpecPartial == InitPartial /\ [][NextPartial]_vars

-----------------------------------------------------------------------------
(* SpecCount: a client that loads a decision without judgments (two or      *)
(* three items of each kind) or with judgments of which some are absent or   *)
(* out of the scale, compares by name and validates                          *)

\* the weight assignments among the assignments, and that of a short goal
WeightAssignments ==
    {k \in DOMAIN Assignments :
        Assignments[k][2] \in {"weight absent", "weight beyond", "goal"}}

InitCount ==
    /\ \E d \in {Filled(from(TwoByTwo)), Filled(from(ThreeByThree))} \cup
                {Partial([d |-> Judged, shape |-> Arrays], chosen, 1).d :
                    chosen \in SUBSET WeightAssignments} :
            Holds(d)
    /\ compares = 0
    /\ runState = NoRun
    /\ last = NoCall

NextCount ==
    \/ CompareCriteria
    \/ CompareAlternatives
    \/ Validate

SpecCount == InitCount /\ [][NextCount]_vars

-----------------------------------------------------------------------------
(* SpecJudge: a client that compares the items of a loaded decision pair by  *)
(* pair, by the names they carry, with the weights 1 and 2, long enough to   *)
(* judge every pair and one more                                             *)

NextJudge ==
    \/ \E item \in Carriers(criteria), weight \in {IntensityEqual, JudgedWeight} :
        \E pair \in Carriers(criteria) \ {item} :
            Compare(item, pair, NoRef, Num(weight), MaxCompares + 2)
    \/ \E item \in Carriers(alternatives), criterion \in Carriers(criteria),
          weight \in {IntensityEqual, JudgedWeight} :
        \E pair \in Carriers(alternatives) \ {item} :
            Compare(item, pair, criterion, Num(weight), MaxCompares + 2)

SpecJudge == Init /\ [][NextJudge]_vars

-----------------------------------------------------------------------------
(* What the properties read *)

\* the decision the step leaves
ThisNext == [id |-> id', goal |-> goal', criteria |-> criteria',
             alternatives |-> alternatives', nextUid |-> nextUid']

\* the criterion ids that key a dimension of alternatives
CriterionIds == {criteria[k].id : k \in DOMAIN criteria} \ {NoId}

\* the last call was a compare that returned normally
Compared == last.op = "compare" /\ last.err = ""

\* the last call was a compare that raised because the criterion, the item or
\* the pair did not resolve, or because the weight is not in the scale
Rejected ==
    /\ last.op = "compare"
    /\ last.msg \in {"Criterion not found", "Item and/or pair not found",
                     "The weight should be in the scale"}

\* the list the last compare worked on, and the id of its criterion
LastList == IF last.crit # 0 THEN alternatives ELSE criteria
LastCritId == IF last.crit # 0 THEN criteria[last.crit].id ELSE NoId
\* weight(item -> pair) and weight(pair -> item) after the last compare
LastForward == StoredWeight(LastList[last.item], LastCritId, LastList[last.pair].id)
LastReverse == StoredWeight(LastList[last.pair], LastCritId, LastList[last.item].id)
\* the matrix entry evaluate would use for (item, pair) after the last compare
LastEntry == MatrixEntry(LastList[last.item], LastList[last.pair], LastCritId)

\* not both x -> y and y -> x hold a weight other than Equal
OneSided(x, y, critId) ==
    ~(/\ StoredWeight(x, critId, y.id) > IntensityEqual
      /\ StoredWeight(y, critId, x.id) > IntensityEqual)

\* the positions <<item, comparison, measurement>> of the slots of a list
Positions(list) ==
    UNION {UNION {{<<k, j, m>> : m \in DOMAIN list[k].comparisons[j].measurements} :
                  j \in DOMAIN list[k].comparisons} : k \in DOMAIN list}

\* the weight in the slot at position s
WeightAt(list, s) == list[s[1]].comparisons[s[2]].measurements[s[3]].weight

\* every weight the list stores: <<owner, criterion, peer, weight>>
StoredIn(list) ==
    {<<list[s[1]].id, list[s[1]].comparisons[s[2]].criterionId,
       list[s[1]].comparisons[s[2]].measurements[s[3]].pairId, WeightAt(list, s)>> :
     s \in {t \in Positions(list) : WeightAt(list, t) # NoWeight}}

\* every weight the decision stores
StoredWeights(d) ==
    [criteria |-> StoredIn(d.criteria), alternatives |-> StoredIn(d.alternatives)]

\* the slots validate reports as missing
MissingMeasurements(d) ==
    [criteria |-> MissingCriterionMeasurement(d),
     alternatives |-> MissingAlternativeMeasurement(d)]

\* the list with every weight taken out: items, ids, names and slots
Unweighted(list) ==
    [k \in DOMAIN list |->
        [list[k] EXCEPT !.comparisons =
            [j \in DOMAIN list[k].comparisons |->
                [list[k].comparisons[j] EXCEPT !.measurements =
                    [m \in DOMAIN list[k].comparisons[j].measurements |->
                        [list[k].comparisons[j].measurements[m] EXCEPT
                            !.weight = NoWeight]]]]]]

\* the positions at which two lists of the same shape hold different weights
Changed(old, new) ==
    {s \in Positions(old) : WeightAt(old, s) # WeightAt(new, s)}

\* the position of x's slot for y in the dimension keyed by critId
SlotOf(list, x, y, critId) ==
    LET ci == FirstIdx(list[x].comparisons, LAMBDA comp : comp.criterionId = critId)
    IN  <<x, ci, FirstIdx(list[x].comparisons[ci].measurements,
                          LAMBDA m : m.pairId = list[y].id)>>

\* position in `old` of the item that new[k] is (the item of that name)
OldPos(old, new, k) == FirstIdx(old, LAMBDA x : x.name = new[k].name)

\* new holds items of old, in the order they have in old
KeptInOrder(old, new) ==
    /\ \A k \in DOMAIN new : OldPos(old, new, k) # 0
    /\ \A k, l \in DOMAIN new : k < l => OldPos(old, new, k) < OldPos(old, new, l)

\* no item of the list has the name or the id of `gone`
Gone(list, gone) ==
    \A k \in DOMAIN list :
        /\ list[k].name # gone.name
        /\ gone.id # NoId => list[k].id # gone.id

\* no slot of the list refers to the id
NoPairId(list, goneId) ==
    \A s \in Positions(list) :
        list[s[1]].comparisons[s[2]].measurements[s[3]].pairId # goneId

\* no alternative has a comparison keyed by the id
NoComparisonFor(alts, goneId) ==
    \A k \in DOMAIN alts : \A j \in DOMAIN alts[k].comparisons :
        alts[k].comparisons[j].criterionId # goneId

\* the number of items of the list that carry the id
Carrying(list, itemId) == Cardinality({k \in DOMAIN list : list[k].id = itemId})

-----------------------------------------------------------------------------
(* The Comparison Protocol *)

\* C1: reciprocal enforcement.  After every call of the by-name client, for
\* every two distinct criteria, and for every two distinct alternatives under
\* every criterion, at most one of the two stored weights A->B and B->A
\* differs from 1.
C1_ReciprocalEnforcement ==
    /\ \A a, b \in DOMAIN criteria :
           a # b => OneSided(criteria[a], criteria[b], NoId)
    /\ \A a, b \in DOMAIN alternatives : \A c \in CriterionIds :
           a # b => OneSided(alternatives[a], alternatives[b], c)

\* a compare has just reversed an earlier judgment: pair's slot held more
\* than 1 and was forced back to 1
C1_Witness ==
    /\ Compared /\ last.n > IntensityEqual /\ last.beforePair > IntensityEqual
    /\ LastForward > IntensityEqual /\ LastReverse = IntensityEqual

\* C2: after a successful compare with a weight in 2..9, item's slot for pair
\* holds the weight and pair's slot for item holds 1, in criterion mode and in
\* alternative mode, whatever the two slots held before.
C2_CompareWritesBothSlots ==
    (Compared /\ last.n \in 2..9) =>
        /\ LastForward = last.n
        /\ LastReverse = IntensityEqual

\* an alternative comparison that overwrote a forward 1 and a larger reverse
\* weight left by an earlier compare in the opposite direction
C2_Witness ==
    /\ Compared /\ last.n \in 2..9 /\ last.crit # 0
    /\ last.beforeItem = IntensityEqual /\ last.beforePair > IntensityEqual

\* C5 as stated: after every successful compare, when both slots of the pair
\* hold a weight, the matrix entry weight(item->pair) / weight(pair->item)
\* equals the weight just given, for every weight in 1..9.
C5_LastJudgmentWins ==
    (Compared /\ ~LastEntry.thrown) => LastEntry.num = last.n * LastEntry.den

\* C5 amended: the entry equals the weight just given when that weight is in
\* 2..9; with weight 1 item's slot holds 1 and pair's slot still holds what it
\* held before, so the entry is 1 / (the weight pair's slot held).
C5_LastJudgmentWinsAboveEqual ==
    (Compared /\ ~LastEntry.thrown) =>
        IF last.n = IntensityEqual
        THEN LastEntry.num = IntensityEqual /\ LastEntry.den = last.beforePair
        ELSE LastEntry.num = last.n * LastEntry.den

\* a compare with weight 1 made after the opposite judgment was recorded with
\* a larger weight: the entry is not 1
C5_Witness ==
    /\ Compared /\ last.n = IntensityEqual /\ last.beforePair > IntensityEqual
    /\ ~LastEntry.thrown /\ LastEntry.den > LastEntry.num

C7_FailedCompareChangesNothing ==
    [][Rejected' =>
          /\ StoredWeights(ThisNext) = StoredWeights(This)
          /\ MissingMeasurements(ThisNext) = MissingMeasurements(This)]_vars

\* C7 amended: a compare rejected for its references or its weight leaves the
\* decision as Structure Completion alone leaves it: every stored weight is
\* unchanged, and on a decision that was complete nothing changes, so that
\* validate reports the same slots as missing.
C7_FailedCompareOnlyCompletes ==
    [][Rejected' =>
          /\ ThisNext = Filled(fill(This))
          /\ StoredWeights(ThisNext) = StoredWeights(This)
          /\ Filled(fill(This)) = This =>
                 MissingMeasurements(ThisNext) = MissingMeasurements(This)]_vars

\* a compare was rejected for its weight on a decision that stores a weight
C7_Witness ==
    /\ Rejected /\ last.msg = "The weight should be in the scale"
    /\ StoredIn(criteria) \cup StoredIn(alternatives) # {}

\* what a successful compare leaves, relative to the decision pre: id, goal,
\* the other sequence and the shape of the compared sequence as in pre, no
\* weight changed but item's for pair and, unless the weight is 1, pair's for
\* item
FrameFrom(pre) ==
    LET altMode == last'.crit # 0
        critId == IF altMode THEN pre.criteria[last'.crit].id ELSE NoId
        old == IF altMode THEN pre.alternatives ELSE pre.criteria
        new == IF altMode THEN alternatives' ELSE criteria'
    IN  /\ id' = pre.id /\ goal' = pre.goal
        /\ altMode => criteria' = pre.criteria
        /\ ~altMode => alternatives' = pre.alternatives
        /\ Unweighted(new) = Unweighted(old)
        /\ Changed(old, new) \subseteq
               {SlotOf(old, last'.item, last'.pair, critId)} \cup
               (IF last'.n # IntensityEqual
                THEN {SlotOf(old, last'.pair, last'.item, critId)} ELSE {})
        /\ WeightAt(new, SlotOf(old, last'.item, last'.pair, critId)) = last'.n

\* C8 as stated: a successful compare changes no weight but item's slot for
\* pair and, when the weight is not 1, pair's slot for item; every other slot,
\* the sequences, the names and the ids are as they were before the call.
C8_CompareFrame == [][Compared' => FrameFrom(This)]_vars

\* C8 amended: a successful compare first completes the structure (ids and
\* weightless slots for items appended without fill); relative to the
\* completed decision it changes no weight but item's slot for pair and, when
\* the weight is not 1, pair's slot for item.
C8_CompareFrameAfterCompletion ==
    [][Compared' => FrameFrom(Filled(fill(This)))]_vars

\* a compare with weight 1 under a criterion left pair's slot without weight
C8_Witness ==
    /\ Compared /\ last.n = IntensityEqual /\ last.crit # 0
    /\ last.beforePair = NoWeight
    /\ LastForward = IntensityEqual /\ LastReverse = NoWeight

-----------------------------------------------------------------------------
(* Structure Completion *)

\* C3: every criterion holds one comparison with (number of criteria - 1)
\* slots, every alternative holds one comparison per criterion, each with
\* (number of alternatives - 1) slots, after every call of a client that hands
\* records with an id of their own to add.
C3_SlotCounts ==
    /\ \A k \in DOMAIN criteria :
           /\ criteria[k].isArr
           /\ Len(criteria[k].comparisons) = 1
           /\ Len(criteria[k].comparisons[1].measurements) = Len(criteria) - 1
    /\ \A k \in DOMAIN alternatives :
           /\ alternatives[k].isArr
           /\ Len(alternatives[k].comparisons) = Len(criteria)
           /\ \A c \in DOMAIN criteria :
                  Cardinality({j \in DOMAIN alternatives[k].comparisons :
                      alternatives[k].comparisons[j].criterionId = criteria[c].id}) = 1
           /\ \A j \in DOMAIN alternatives[k].comparisons :
                  Len(alternatives[k].comparisons[j].measurements) =
                      Len(alternatives) - 1

\* the slots of item k of the list are for its peers: none for the item
\* itself, none for an id that is not in the list, one for every peer
SlotsForPeers(list, k) ==
    /\ \A s \in Positions(list) : s[1] = k =>
           /\ list[k].comparisons[s[2]].measurements[s[3]].pairId # list[k].id
           /\ \E l \in DOMAIN list :
                  list[l].id = list[k].comparisons[s[2]].measurements[s[3]].pairId
    /\ \A j \in DOMAIN list[k].comparisons : \A l \in DOMAIN list : l # k =>
           \E m \in DOMAIN list[k].comparisons[j].measurements :
               list[k].comparisons[j].measurements[m].pairId = list[l].id

\* C4: after fill has run (in Decision.from, add, remove, compare) the pairIds
\* of every measurement list of every criterion and of every alternative are
\* the ids of the other items of the same kind, also when the loaded data or
\* the record given to add carries measurement lists.
C4_PairIds ==
    /\ \A k \in DOMAIN criteria : SlotsForPeers(criteria, k)
    /\ \A k \in DOMAIN alternatives : SlotsForPeers(alternatives, k)

-----------------------------------------------------------------------------
(* Add / Remove *)

\* the last call removed an existing criterion (crit) or alternative (item)
RemovedOne == last.op = "remove" /\ last.err = "" /\ (last.crit # 0 \/ last.item # 0)

\* the recorded weights between the items of the decision the step leaves are
\* the ones these items had before
WeightsKept ==
    /\ \A k, l \in DOMAIN criteria' :
           StoredWeight(criteria'[k], NoId, criteria'[l].id) =
               StoredWeight(criteria[OldPos(criteria, criteria', k)], NoId,
                            criteria[OldPos(criteria, criteria', l)].id)
    /\ \A a, b \in DOMAIN alternatives' : \A c \in DOMAIN criteria' :
           StoredWeight(alternatives'[a], criteria'[c].id, alternatives'[b].id) =
               StoredWeight(alternatives[OldPos(alternatives, alternatives', a)],
                            criteria[OldPos(criteria, criteria', c)].id,
                            alternatives[OldPos(alternatives, alternatives', b)].id)

UniqueNames(list) ==
    \A k, l \in DOMAIN list : k # l => list[k].name # list[l].name

\* C10: add raises ValidationError exactly when the name given for a criterion
\* is the name of a criterion (or the name given for an alternative is the
\* name of an alternative), so no two criteria and no two alternatives share a
\* name; a name used by the other kind or removed before is accepted.
C10_NamesUnique ==
    /\ UniqueNames(criteria)
    /\ UniqueNames(alternatives)
    /\ last.op = "add" => (last.err = "ValidationError" <=> last.taken)
    /\ last.op = "add" => (last.err = "" <=> ~last.taken)

\* a criterion that was removed from the loaded decision has been added again
\* under its name, which an alternative carries too
C10_Witness ==
    /\ last.op = "add" /\ last.err = "" /\ last.crit # 0
    /\ id = TwoByTwo.id
    /\ criteria[last.crit].name = TwoByTwo.criteria[1].name
    /\ criteria[last.crit].id # TwoByTwo.criteria[1].id
    /\ NameTaken(alternatives, criteria[last.crit].name)

-----------------------------------------------------------------------------
(* Add *)

\* the last call was an add that returned normally
Added == last.op = "add" /\ last.err = ""

\* the items of old are the first items of new, with their names and ids
KeptInFront(old, new) ==
    /\ Len(new) >= Len(old)
    /\ \A k \in DOMAIN old : new[k].id = old[k].id /\ new[k].name = old[k].name

\* C11: a successful add appends the new
\* item as the last of its sequence and leaves order, names and ids of the
\* others as they were; the new item has an id; every criterion holds one
\* comparison with one slot per other criterion, every alternative one
\* comparison per criterion with one slot per other alternative; the slots
\* between existing items hold the weights they held, and every slot of or
\* for the new item, and every slot under a new criterion, has no weight.
C11_AddCompletes ==
    [][Added' =>
          /\ KeptInFront(criteria, criteria')
          /\ KeptInFront(alternatives, alternatives')
          /\ Len(criteria') = Len(criteria) + (IF last'.crit # 0 THEN 1 ELSE 0)
          /\ Len(alternatives') = Len(alternatives) + (IF last'.item # 0 THEN 1 ELSE 0)
          /\ \A k \in DOMAIN criteria' :
                 /\ criteria'[k].id # NoId
                 /\ Len(criteria'[k].comparisons) = 1
                 /\ Len(criteria'[k].comparisons[1].measurements) = Len(criteria') - 1
                 /\ SlotsForPeers(criteria', k)
                 /\ \A j \in DOMAIN criteria' : j # k =>
                        StoredWeight(criteria'[k], NoId, criteria'[j].id) =
                            IF k \in DOMAIN criteria /\ j \in DOMAIN criteria
                            THEN StoredWeight(criteria[k], NoId, criteria[j].id)
                            ELSE NoWeight
          /\ \A a \in DOMAIN alternatives' :
                 /\ alternatives'[a].id # NoId
                 /\ Len(alternatives'[a].comparisons) = Len(criteria')
                 /\ SlotsForPeers(alternatives', a)
                 /\ \A c \in DOMAIN criteria' :
                        /\ alternatives'[a].comparisons[c].criterionId = criteria'[c].id
                        /\ Len(alternatives'[a].comparisons[c].measurements) =
                               Len(alternatives') - 1
                        /\ \A b \in DOMAIN alternatives' : b # a =>
                               StoredWeight(alternatives'[a], criteria'[c].id,
                                            alternatives'[b].id) =
                                   IF /\ a \in DOMAIN alternatives
                                      /\ b \in DOMAIN alternatives
                                      /\ c \in DOMAIN criteria
                                   THEN StoredWeight(alternatives[a], criteria[c].id,
                                                     alternatives[b].id)
                                   ELSE NoWeight]_vars

(* fill and add keep the recorded weights *)

\* C12: fill and add never discard or change a recorded weight: a slot of a
\* criterion towards another criterion, and a slot of an alternative towards
\* another alternative under a criterion, that held a weight before the call
\* holds the same weight after it when the items and the criterion (taken by
\* their ids) are still in the decision.
C12_WeightsSurvive ==
    [][last'.op \in {"add", "fill"} =>
        /\ \A k, l \in DOMAIN criteria \cap DOMAIN criteria' :
               ( /\ criteria[k].id # NoId /\ criteria'[k].id = criteria[k].id
                 /\ criteria[l].id # NoId /\ criteria'[l].id = criteria[l].id
                 /\ StoredWeight(criteria[k], NoId, criteria[l].id) # NoWeight )
               => StoredWeight(criteria'[k], NoId, criteria[l].id) =
                      StoredWeight(criteria[k], NoId, criteria[l].id)
        /\ \A a, b \in DOMAIN alternatives \cap DOMAIN alternatives' :
           \A c \in DOMAIN criteria \cap DOMAIN criteria' :
               ( /\ alternatives[a].id # NoId /\ alternatives'[a].id = alternatives[a].id
                 /\ alternatives[b].id # NoId /\ alternatives'[b].id = alternatives[b].id
                 /\ criteria[c].id # NoId /\ criteria'[c].id = criteria[c].id
                 /\ StoredWeight(alternatives[a], criteria[c].id, alternatives[b].id)
                        # NoWeight )
               => StoredWeight(alternatives'[a], criteria[c].id, alternatives[b].id) =
                      StoredWeight(alternatives[a], criteria[c].id, alternatives[b].id)
    ]_vars

\* an add has completed on a decision with recorded weights, which are all
\* still there beside the weightless slots for the new criterion
C12_Witness ==
    /\ last.op = "add" /\ last.err = ""
    /\ Len(criteria) = 3 /\ Len(alternatives) = 2
    /\ StoredWeight(criteria[1], NoId, criteria[2].id) = JudgedWeight
    /\ StoredWeight(alternatives[1], criteria[1].id, alternatives[2].id) = JudgedWeight
    /\ StoredWeight(alternatives[1], criteria[3].id, alternatives[2].id) = NoWeight

(* fill is idempotent *)

\* C13: fill is idempotent: on every decision on which fill completes, a
\* second fill right after it completes too, changes nothing (ids, slots,
\* weights, goal) and makes no call to the id generator.
C13_FillIdempotent ==
    Let(fill(This), LAMBDA once :
        once.thrown = "" =>
            Let(fill(Filled(once)), LAMBDA twice :
                /\ twice.thrown = ""
                /\ Filled(twice) = Filled(once)
                /\ twice.nextUid = once.nextUid
                /\ FillUids(Filled(once)) = 0))

\* fill has just given an id to an item that had none and has completed the
\* slots of the decision
C13_Witness ==
    /\ last.op = "fill" /\ last.err = ""
    /\ nextUid > Judged.nextUid
    /\ Len(criteria) = 2 /\ Len(alternatives) = 2

(* fill on a partially populated decision *)

\* C14: fill completes without raising on every partially populated decision
\* (criteria or alternatives absent or no list, items without an id, items
\* whose comparisons are absent, an empty list or more than required), and
\* afterwards every criterion has exactly one comparison and every
\* alternative exactly one comparison per criterion.
C14_FillCompletes ==
    Let(fill(This), LAMBDA f :
        /\ f.thrown = ""
        /\ \A k \in DOMAIN f.criteria : Len(f.criteria[k].comparisons) = 1
        /\ \A a \in DOMAIN f.alternatives :
               /\ Len(f.alternatives[a].comparisons) = Len(f.criteria)
               /\ \A c \in DOMAIN f.criteria :
                      Cardinality({i \in DOMAIN f.alternatives[a].comparisons :
                          f.alternatives[a].comparisons[i].criterionId =
                              f.criteria[c].id}) = 1)

(* validate *)

\* C15: validate returns a report and never raises, in every state of the
\* decision, also when criteria or alternatives are absent or hold a value
\* that is no sequence and when items lack id, name or comparisons; in the
\* report valid is true exactly when errors is empty.
C15_ValidateReturns == validate(This, shape).thrown = ""

\* C16: validate().valid is true exactly when the decision has an id, a goal
\* of at least 3 characters, at least 2 criteria and at least 2 alternatives,
\* every item has an id and a name of at least 3 characters, every criterion
\* has exactly one comparison and every alternative exactly one comparison
\* per criterion, and every slot of every item towards every other item of
\* its kind (per criterion for alternatives) holds a weight in 1..9.
C16_ValidExactlyWhenComplete ==
    (validate(This, shape).thrown = "" /\ validate(This, shape).errors = {})
    <=>
    /\ id # NoId
    /\ Length(goal) >= MINIMUM_CHARS
    /\ shape = Arrays
    /\ Len(criteria) >= MINIMUM_ITEMS
    /\ Len(alternatives) >= MINIMUM_ITEMS
    /\ \A k \in DOMAIN criteria :
           /\ criteria[k].id # NoId
           /\ Length(criteria[k].name) >= MINIMUM_CHARS
           /\ criteria[k].isArr
           /\ Len(criteria[k].comparisons) = 1
           /\ \A l \in DOMAIN criteria \ {k} :
                  LET slots == {m \in DOMAIN criteria[k].comparisons[1].measurements :
                                   criteria[k].comparisons[1].measurements[m].pairId =
                                       criteria[l].id}
                  IN  /\ slots # {}
                      /\ \A m \in slots :
                             criteria[k].comparisons[1].measurements[m].weight
                                 \in Intensity
    /\ \A a \in DOMAIN alternatives :
           /\ alternatives[a].id # NoId
           /\ Length(alternatives[a].name) >= MINIMUM_CHARS
           /\ alternatives[a].isArr
           /\ Len(alternatives[a].comparisons) = Len(criteria)
           /\ \A c \in DOMAIN criteria :
                  /\ Cardinality({i \in DOMAIN alternatives[a].comparisons :
                         alternatives[a].comparisons[i].criterionId = criteria[c].id}) = 1
                  /\ \A b \in DOMAIN alternatives \ {a} :
                         StoredWeight(alternatives[a], criteria[c].id, alternatives[b].id)
                             \in Intensity

\* validate has just reported a decision of two criteria and two alternatives
\* as valid
C16_Witness ==
    /\ last.op = "validate" /\ last.err = "" /\ last.n = 0
    /\ Len(criteria) = 2 /\ Len(alternatives) = 2

\* the number of errors named nm that validate returns for the decision d
Reported(d, nm) == Cardinality({e \in validate(d, Arrays).errors : e.name = nm})

\* C17: on a filled decision validate reports exactly one
\* MissingCriterionMeasurement for each ordered pair (A, B) of distinct
\* criteria whose slot A->B has no weight or a weight outside 1..9, and
\* exactly one MissingAlternativeMeasurement for each criterion and each
\* ordered pair (A, B) of distinct alternatives whose slot A->B under the
\* criterion has no weight or a weight out of the scale; a decision of C
\* criteria and M alternatives without weights reports C*(C-1) and
\* C*M*(M-1) of them, and each successful compare lowers the number by the
\* number of slots it fills.
C17_MissingMeasurements ==
    /\ []((shape = Arrays /\ Filled(fill(This)) = This) =>
          /\ {<<e.item, e.pair>> : e \in
                {x \in validate(This, shape).errors :
                    x.name = "MissingCriterionMeasurement"}}
             = {p \in (DOMAIN criteria) \X (DOMAIN criteria) :
                    /\ p[1] # p[2]
                    /\ StoredWeight(criteria[p[1]], NoId, criteria[p[2]].id)
                           \notin Intensity}
          /\ {<<e.item, e.pair, e.criterion>> : e \in
                {x \in validate(This, shape).errors :
                    x.name = "MissingAlternativeMeasurement"}}
             = {p \in (DOMAIN alternatives) \X (DOMAIN alternatives) \X (DOMAIN criteria) :
                    /\ p[1] # p[2]
                    /\ StoredWeight(alternatives[p[1]], criteria[p[3]].id,
                                    alternatives[p[2]].id) \notin Intensity}
          /\ (StoredIn(criteria) = {} /\ StoredIn(alternatives) = {}) =>
                /\ Reported(This, "MissingCriterionMeasurement") =
                       Len(criteria) * (Len(criteria) - 1)
                /\ Reported(This, "MissingAlternativeMeasurement") =
                       Len(criteria) * Len(alternatives) * (Len(alternatives) - 1))
    /\ [][(last'.op = "compare" /\ last'.err = ""
            /\ shape = Arrays /\ Filled(fill(This)) = This) =>
            (Reported(This, "MissingCriterionMeasurement")
                + Reported(This, "MissingAlternativeMeasurement"))
            - (Reported(ThisNext, "MissingCriterionMeasurement")
                + Reported(ThisNext, "MissingAlternativeMeasurement"))
            = (IF last'.beforeItem \notin Intensity THEN 1 ELSE 0)
              + (IF last'.n # IntensityEqual /\ last'.beforePair \notin Intensity
                 THEN 1 ELSE 0)]_vars

\* a compare with weight 1 has filled one slot of a decision that holds a
\* weight out of the scale, for which validate reports the slot
C17_Witness ==
    /\ last.op = "compare" /\ last.err = ""
    /\ last.n = IntensityEqual /\ last.beforeItem = NoWeight
    /\ \E k \in DOMAIN alternatives :
           alternatives[k].comparisons[1].measurements[1].weight > IntensityExtreme
    /\ Reported(This, "MissingAlternativeMeasurement") >= 1

(* judging every pair *)

\* C18: on a decision with a goal, at least two criteria and at least two
\* alternatives with valid names, once one compare with a weight in 2..9 has
\* been made for every unordered pair of criteria and, for every criterion,
\* for every unordered pair of alternatives (in either direction, in any
\* order), validate().valid is true: the forced reciprocal 1 completes the
\* opposite direction.  A compare with weight 1 completes only the direction
\* it was called for: the opposite slot stays as it was.
C18_EveryPairJudged ==
    /\ []((/\ ~TooShort(goal)
           /\ Len(criteria) >= MINIMUM_ITEMS
           /\ Len(alternatives) >= MINIMUM_ITEMS
           /\ \A k \in DOMAIN criteria : ~TooShort(criteria[k].name)
           /\ \A k \in DOMAIN alternatives : ~TooShort(alternatives[k].name)
           /\ \A k, l \in DOMAIN criteria :
                  k # l => <<NoId, {criteria[k].id, criteria[l].id}>> \in last.judged
           /\ \A c \in DOMAIN criteria : \A a, b \in DOMAIN alternatives :
                  a # b => <<criteria[c].id, {alternatives[a].id, alternatives[b].id}>>
                               \in last.judged)
          => (validate(This, shape).thrown = "" /\ validate(This, shape).errors = {}))
    /\ [][(last'.op = "compare" /\ last'.err = "" /\ last'.n = IntensityEqual) =>
            /\ LastForward' = IntensityEqual
            /\ LastReverse' = last'.beforePair
            /\ last'.beforePair = NoWeight =>
                   validate(ThisNext, shape').errors # {}]_vars

\* three compares with a weight above 1 have judged the pair of criteria and
\* the pair of alternatives under both criteria, and validate finds no error
C18_Witness ==
    /\ last.op = "compare" /\ last.err = ""
    /\ compares = 3
    /\ Cardinality(last.judged) = 3
    /\ Len(criteria) = 2 /\ Len(alternatives) = 2
    /\ validate(This, shape).errors = {}

(* evaluate *)

\* C19: if validate().valid is false, assertValid and evaluate raise one
\* aggregate error that carries exactly the errors validate returns, and
\* evaluate leaves the priorities of criteria, comparisons and alternatives
\* and the summary as they were before the call.
C19_InvalidIsNotEvaluated ==
    /\ []((validate(This, shape).thrown = "" /\ validate(This, shape).errors # {}) =>
            /\ assertValid(This, shape).err = "AggregateError"
            /\ assertValid(This, shape).errors = validate(This, shape).errors
            /\ evaluate(This, shape, results).err = "AggregateError"
            /\ evaluate(This, shape, results).errors = validate(This, shape).errors)
    /\ [][(/\ last'.op = "evaluate"
           /\ validate(This, shape).thrown = ""
           /\ validate(This, shape).errors # {}) =>
            /\ last'.err = "AggregateError"
            /\ last'.n = Cardinality(validate(This, shape).errors)
            /\ results' = results
            /\ ThisNext = This]_vars

\* evaluate has just raised the aggregate error, with two errors, on a
\* decision that was evaluated before a criterion was added to it: the
\* results of the earlier call are still there
C19_Witness ==
    /\ last.op = "evaluate" /\ last.err = "AggregateError" /\ last.n >= 2
    /\ results.priorities = "all"
    /\ results.summary
    /\ Len(results.criteria) = 2
    /\ Len(criteria) = 3

\* C20: whenever validate().valid is true, evaluate runs to completion: the
\* matrices are built without 'Unexpected missing weight' and the priorities
\* are aggregated without 'Unexpected missing priority', every weight lookup
\* of getWeigthsMatrix finding the slot that validate checked.
C20_ValidIsEvaluated ==
    (validate(This, shape).thrown = "" /\ validate(This, shape).errors = {}) =>
        /\ evaluate(This, shape, results).err = ""
        /\ MatrixBuilt(criteria, NoId)
        /\ \A c \in DOMAIN criteria : MatrixBuilt(alternatives, criteria[c].id)

-----------------------------------------------------------------------------
(* SpecEval: a client that loads two criteria and two alternatives, compares *)
(* the pairs by name and evaluates, also more than once                      *)

\* the loaded data; an alternative may carry the name of the footer of the
\* breakdown and a criterion the name of its last column
EvalData ==
    {TwoByTwo,
     [TwoByTwo EXCEPT !.alternatives[2].name = "Totals"],
     [TwoByTwo EXCEPT !.criteria[2].name = "Goal"]}

InitEval ==
    /\ \E data \in EvalData : Holds(Filled(from(data)))
    /\ compares = 0
    /\ runState = NoRun
    /\ last = NoCall

NextEval ==
    \/ NextJudge
    \/ Evaluate

SpecEval == InitEval /\ [][NextEval]_vars

\* evaluate has just returned
Evaluated == last.op = "evaluate" /\ last.err = ""

\* fractions: a = b, a <= b
Same(a, b) == a.num * b.den = b.num * a.den
AtMost(a, b) == a.num * b.den <= b.num * a.den
One == [num |-> 1, den |-> 1]

\* the weights the list stores in the slots of its x-th item for its y-th
\* item under the criterion critId
Judgments(list, x, y, critId) ==
    {t[4] : t \in {u \in StoredIn(list) :
                      u[1] = list[x].id /\ u[2] = critId /\ u[3] = list[y].id}}

\* C22: for every valid decision, the matrix of the criteria and the matrix
\* of the alternatives under each criterion have a row and a column per item
\* in sequence order, 1 on the diagonal, off the diagonal the entry
\* M[i][j] = weight(i->j) / weight(j->i), M[i][j] * M[j][i] = 1 for all i, j,
\* and every entry between 1/9 and 9.
C22_ReciprocalMatrix ==
    (validate(This, shape).thrown = "" /\ validate(This, shape).errors = {}) =>
        \A critId \in {NoId} \cup IdSet(criteria) :
            LET list == IF critId = NoId THEN criteria ELSE alternatives
                M == getWeigthsMatrix(list, critId)
            IN  /\ DOMAIN M = DOMAIN list
                /\ \A i \in DOMAIN list :
                       /\ DOMAIN M[i] = DOMAIN list
                       /\ \A j \in DOMAIN list :
                              /\ ~M[i][j].thrown
                              /\ i = j => Same(M[i][j], One)
                              /\ i # j =>
                                     \E w \in Judgments(list, i, j, critId),
                                        v \in Judgments(list, j, i, critId) :
                                         Same(M[i][j], [num |-> w, den |-> v])
                              /\ Same(Times(M[i][j], M[j][i]), One)
                              /\ AtMost([num |-> IntensityEqual, den |-> IntensityExtreme],
                                        M[i][j])
                              /\ AtMost(M[i][j], [num |-> IntensityExtreme,
                                                  den |-> IntensityEqual])

\* a valid decision whose first criterion was judged above the second and
\* whose second alternative was judged above the first under a criterion
C22_Witness ==
    /\ validate(This, shape).errors = {}
    /\ getWeigthsMatrix(criteria, NoId)[1][2].num = JudgedWeight
    /\ getWeigthsMatrix(criteria, NoId)[1][2].den = IntensityEqual
    /\ \E c \in DOMAIN criteria :
           getWeigthsMatrix(alternatives, criteria[c].id)[1][2].den = JudgedWeight

\* a vector of priorities: each in [0, 1], together 1
Shares(vector) ==
    /\ Same(Total(vector), One)
    /\ \A k \in DOMAIN vector :
           /\ vector[k].den > 0
           /\ vector[k].num >= 0
           /\ AtMost(vector[k], One)

C23_AggregationIsReset ==
    /\ [](Evaluated =>
            \A a \in DOMAIN alternatives :
                Same(results.overall[a],
                     Total([c \in DOMAIN criteria |->
                               Times(results.local[c][a], results.criteria[c])])))
    /\ [][(Evaluated /\ Evaluated') => results' = results]_vars

\* an evaluate that returned followed an evaluate that returned, with
\* priorities that are not all equal
C23_Witness ==
    /\ Evaluated
    /\ last.again
    /\ ~Same(results.overall[1], results.overall[2])

\* C24: after a successful evaluate, summary.recommendedChoice is the name of
\* the alternative with the maximum overall priority, the first of them in
\* the sequence when several share the maximum; evaluate does not reorder the
\* alternatives.
C24_RecommendedChoice ==
    /\ [](Evaluated =>
            \E k \in DOMAIN alternatives :
                /\ results.recommendedChoice = alternatives[k].name
                /\ \A j \in DOMAIN alternatives :
                       /\ AtMost(results.overall[j], results.overall[k])
                       /\ j < k => ~Same(results.overall[j], results.overall[k]))
    /\ [][last'.op = "evaluate" => alternatives' = alternatives]_vars

\* evaluate has recommended the first of two alternatives of equal priority
C24_Witness ==
    /\ Evaluated
    /\ Same(results.overall[1], results.overall[2])
    /\ results.recommendedChoice = alternatives[1].name

\* C25: after a successful evaluate on a valid decision, whatever the names
\* of at least 3 characters, summary.breakdown has one row per alternative
\* and the row 'Totals', every row has one column per criterion and the
\* column 'Goal', the row of each alternative is found under its name and its
\* cell 'Goal' is the rounded overall priority of the alternative.
C25_BreakdownShape ==
    Evaluated =>
        /\ Cardinality(DOMAIN results.breakdown) = Len(alternatives) + 1
        /\ "Totals" \in DOMAIN results.breakdown
        /\ \A row \in DOMAIN results.breakdown :
               /\ Cardinality(DOMAIN results.breakdown[row]) = Len(criteria) + 1
               /\ "Goal" \in DOMAIN results.breakdown[row]
        /\ \A a \in DOMAIN alternatives :
               /\ alternatives[a].name \in DOMAIN results.breakdown
               /\ results.breakdown[alternatives[a].name]["Goal"]
                      = round(results.overall[a])

\* JSON.stringify(decision) writes the fields id, goal, criteria and
\* alternatives (uid is a function and is left out)
Exported == [id |-> id, goal |-> goal, criteria |-> criteria, alternatives |-> alternatives]

\* two lists hold items of the same ids and names in the same order, with
\* the same comparisons, the same slots and the same weights
SameItems(a, b) ==
    /\ Len(a) = Len(b)
    /\ \A k \in DOMAIN a :
           /\ a[k].id = b[k].id
           /\ a[k].name = b[k].name
           /\ Len(a[k].comparisons) = Len(b[k].comparisons)
           /\ \A j \in DOMAIN a[k].comparisons :
                  /\ a[k].comparisons[j].criterionId = b[k].comparisons[j].criterionId
                  /\ Len(a[k].comparisons[j].measurements)
                         = Len(b[k].comparisons[j].measurements)
                  /\ \A m \in DOMAIN a[k].comparisons[j].measurements :
                         /\ a[k].comparisons[j].measurements[m].pairId
                                = b[k].comparisons[j].measurements[m].pairId
                         /\ a[k].comparisons[j].measurements[m].weight
                                = b[k].comparisons[j].measurements[m].weight

\* C26: for every decision d reachable through the API,
\* Decision.from(JSON.stringify(d)) has the id, the goal, the criteria and
\* the alternatives of d (same order, ids and names), the same slots and the
\* same weights: a slot without weight comes back without weight and a forced
\* reciprocal 1 comes back as weight 1.
C26_RoundTrip ==
    /\ from(Exported).thrown = ""
    /\ from(Exported).id = id
    /\ from(Exported).goal = goal
    /\ SameItems(from(Exported).criteria, criteria)
    /\ SameItems(from(Exported).alternatives, alternatives)

\* C27: remove with an id or a name that matches no item of the addressed
\* kind raises no error and leaves the decision unchanged: the same criteria
\* and alternatives, the same ids, slots and weights.
C27_RemoveUnmatched ==
    [][(last'.op = "remove" /\ last'.crit = 0 /\ last'.item = 0) =>
          /\ last'.err = ""
          /\ id' = id
          /\ goal' = goal
          /\ SameItems(criteria', criteria)
          /\ SameItems(alternatives', alternatives)]_vars

\* the references a client can make to an item of the list with an id, a
\* name or both
FullRefs(list) ==
    {Ref(i, nm) : i \in IdSet(list) \cup {NoId, UnknownId},
                  nm \in {list[k].name : k \in DOMAIN list} \cup {NoName, UnknownName}}
        \ {Ref(NoId, NoName)}

\* C28: a reference is resolved by id in preference to name, the same way in
\* compare and in remove: a reference with an id that matches an item
\* resolves to that item whatever name it carries, the name is used only
\* when the reference carries no id, and remove deletes the item that compare
\* would read or write.
C28_SameResolution ==
    \A list \in {criteria, alternatives} :
        \A ref \in FullRefs(list) :
            /\ Resolve(list, ref) = Removed(list, ref)
            /\ \A k \in DOMAIN list :
                   (ref.id # NoId /\ list[k].id = ref.id) =>
                       list[Resolve(list, ref)].id = ref.id

\* C29: after any sequence of add and remove calls the ids are pairwise
\* distinct among the criteria and pairwise distinct among the alternatives,
\* also when add is given records that carry an id of their own.
C29_DistinctIds ==
    \A list \in {criteria, alternatives} :
        \A j, k \in DOMAIN list : j # k => list[j].id # list[k].id

\* the number of items without id among the first k of the list
Lacking(list, k) == Cardinality({j \in 1..k : list[j].id = NoId})

\* C30: fill never changes an id that is set and calls the id generator once
\* per entity without id, in the order: the decision, the criteria in
\* sequence order, the alternatives in sequence order; with a counter
\* generator a new decision gets the first value and the first item added
\* the second.
C30_IdsInGeneratorOrder ==
    /\ (id # TwoByTwo.id => (id = 1 /\ nextUid = 2))
    /\ [][last'.op \in {"fill", "compare"} =>
            LET own == IF id = NoId THEN 1 ELSE 0
            IN  /\ id' = IF id = NoId THEN nextUid ELSE id
                /\ Len(criteria') = Len(criteria)
                /\ Len(alternatives') = Len(alternatives)
                /\ \A k \in DOMAIN criteria :
                       criteria'[k].id =
                           IF criteria[k].id # NoId THEN criteria[k].id
                           ELSE nextUid + own + Lacking(criteria, k - 1)
                /\ \A k \in DOMAIN alternatives :
                       alternatives'[k].id =
                           IF alternatives[k].id # NoId THEN alternatives[k].id
                           ELSE nextUid + own + Lacking(criteria, Len(criteria))
                                    + Lacking(alternatives, k - 1)
                /\ nextUid' = nextUid + own + Lacking(criteria, Len(criteria))
                                  + Lacking(alternatives, Len(alternatives))]_vars

\* fill has given ids to a criterion and an alternative that had none: the
\* criterion the lower one
C30_Witness ==
    /\ last.op = "fill"
    /\ \E c \in DOMAIN criteria, a \in DOMAIN alternatives :
           /\ criteria[c].name \in PushedNames
           /\ alternatives[a].name \in PushedNames
           /\ alternatives[a].id = criteria[c].id + 1

\* the decision is one built without a goal: new Decision(), or Decision.from
\* of data that carries no goal
BuiltWithoutGoal == This \in {Filled(from(data)) : data \in {NoData, ThreeByThree}}

\* C31 as stated: validate reports MissingDecisionGoal whenever the decision
\* has no goal, also for a decision built with new Decision() or loaded from
\* data that carries no goal, and whenever the goal is shorter than 3
\* characters.
C31_NoGoalIsReported ==
    (BuiltWithoutGoal \/ Length(goal) < MINIMUM_CHARS) =>
        Reported(This, "MissingDecisionGoal") = 1

\* C31 as amended: validate reports MissingDecisionGoal exactly when the goal
\* the decision holds at the time of the call is shorter than 3 characters;
\* a decision built with new Decision() or loaded from data that carries no
\* goal holds the goal 'unknown' and is not reported for its goal.
C31_ShortGoalIsReported ==
    /\ Reported(This, "MissingDecisionGoal")
           = (IF Length(goal) < MINIMUM_CHARS THEN 1 ELSE 0)
    /\ BuiltWithoutGoal =>
           (goal = "unknown" /\ Reported(This, "MissingDecisionGoal") = 0)

\* validate has returned errors for a decision whose goal has two characters
C31_Witness ==
    /\ last.op = "validate" /\ last.n > 0
    /\ goal = "Ch"
    /\ Reported(This, "MissingDecisionGoal") = 1

\* C32: compare runs Structure Completion before it reads or writes a slot,
\* so the compare that follows a direct append succeeds whenever its
\* references name two different items (the appended one included) and its
\* weight is in the scale, and leaves the structure complete; validate and
\* evaluate do not complete the structure: validate reports every item
\* without id, evaluate raises the aggregate error, and both leave the
\* decision as it is.
C32_CompareCompletesFirst ==
    /\ [][(/\ last.op = "push"
           /\ last'.op = "compare"
           /\ last'.resolved /\ last'.distinct
           /\ last'.n \in Intensity /\ ~last'.half) =>
            /\ last'.err = ""
            /\ Filled(fill(ThisNext)) = ThisNext
            /\ Lacking(criteria', Len(criteria')) = 0
            /\ Lacking(alternatives', Len(alternatives')) = 0]_vars
    /\ [](/\ Reported(This, "MissingCriterionId") = Lacking(criteria, Len(criteria))
          /\ Reported(This, "MissingAlternativeId")
                 = Lacking(alternatives, Len(alternatives))
          /\ (Lacking(criteria, Len(criteria)) + Lacking(alternatives, Len(alternatives)) > 0
                 => evaluate(This, shape, results).err = "AggregateError"))
    /\ [][last'.op \in {"validate", "evaluate"} => ThisNext = This]_vars

\* the compare that followed a direct append has recorded a weight for the
\* appended item
C32_Witness ==
    /\ last.op = "compare" /\ last.err = ""
    /\ LastList[last.item].name \in PushedNames
    /\ LastList[last.item].id = nextUid - 1
    /\ StoredWeight(LastList[last.item], LastCritId, LastList[last.pair].id) = JudgedWeight

\* C33: an add that raises ValidationError leaves the decision unchanged:
\* the same criteria and alternatives, ids and slots as before the call,
\* also when the call supplies a criterion and an alternative of which one
\* is rejected.
C33_FailedAddChangesNothing ==
    [][(last'.op = "add" /\ last'.err = "ValidationError") =>
          /\ id' = id
          /\ goal' = goal
          /\ SameItems(criteria', criteria)
          /\ SameItems(alternatives', alternatives)]_vars

-----------------------------------------------------------------------------
(* SpecStale: a client that evaluates a judged decision and goes on to add,  *)
(* remove and compare, and evaluates again                                   *)

InitStale ==
    /\ Holds(Judged)
    /\ compares = 0
    /\ runState = NoRun
    /\ last = NoCall

NextStale ==
    \/ Evaluate
    \/ AddOneMore
    \/ RemoveLoadedCriterion
    \/ RemoveLoadedAlternative
    \/ RecordCriteria
    \/ RecordAlternatives

SpecStale == InitStale /\ [][NextStale]_vars

-----------------------------------------------------------------------------
(* SpecSlots: a client that appends items to the public sequences, removes   *)
(* items and compares the items the decision holds                           *)

NextSlots ==
    \/ PushCriterion
    \/ PushAlternative
    \/ RemoveLoadedCriterion
    \/ RemoveLoadedAlternative
    \/ RecordCriteria
    \/ RecordAlternatives

SpecSlots == Init /\ [][NextSlots]_vars

-----------------------------------------------------------------------------
(* SpecNames: a client that hands add a criterion and an alternative in one  *)
(* call, as names or as records, of which one may carry no name              *)

\* add({ criterion: { name? }, alternative: { name? } })
AddPair ==
    \E cn \in CriterionNames \cup {NoName}, an \in AlternativeNames \cup {NoName} :
        Add(Record(NoId, cn, FALSE, <<>>), Record(NoId, an, FALSE, <<>>))

NextNames ==
    \/ AddCriterion
    \/ AddAlternative
    \/ AddPair
    \/ RemoveCriterion
    \/ RemoveAlternative

SpecNames == Init /\ [][NextNames]_vars

\* C37: after any sequence of add calls, successful or failed, every
\* criterion and every alternative of the decision has a non-empty name.
C37_NoNamelessItem ==
    /\ \A k \in DOMAIN criteria : criteria[k].name # NoName
    /\ \A k \in DOMAIN alternatives : alternatives[k].name # NoName

\* the record of an error validate returns
Err(nm, i, j, c) == [name |-> nm, item |-> i, pair |-> j, criterion |-> c]

\* list[x] has a slot for list[y], another item, in the dimension keyed by
\* critId
Slot(list, x, y, critId) ==
    /\ x # y
    /\ \E j \in DOMAIN list[x].comparisons :
           /\ list[x].comparisons[j].criterionId = critId
           /\ \E m \in DOMAIN list[x].comparisons[j].measurements :
                  list[x].comparisons[j].measurements[m].pairId = list[y].id

\* that slot holds no weight
Empty(list, x, y, critId) == StoredWeight(list[x], critId, list[y].id) = NoWeight

-----------------------------------------------------------------------------
(* The interactive run: run(prompt, logger) of the command line tool.  The   *)
(* prompt is the caller's: each await of it is a step whose answer is any    *)
(* value the prompt can return.                                              *)

\* the scale index the prompt returns is 0..MaxAnswer
MaxAnswer == 1

\* const pairs = (n) => n === 0 ? 0 : (n - 1) + pairs(n - 1)
RECURSIVE pairs(_)
pairs(n) == IF n = 0 THEN 0 ELSE (n - 1) + pairs(n - 1)

\* scale[k].name, k counted from 0
scale(k) == <<1, 3, 5, 7, 9>>[k + 1]

\* name.trim()
trim(name) ==
    CASE name = "Ed " -> "Ed"
      [] name = "Tom " -> "Tom"
      [] OTHER -> name

\* the lists the setup prompt returns: its validate accepts a list of two
\* items or more whose items have three characters or more
CriteriaAnswers == {<<"Exp", "Edu">>, <<"Exp", "Ed ">>}
AlternativesAnswers == {<<"Tom", "Frog">>, <<"Tom", "Frog", "Eagle">>, <<"Tom", "Tom ">>}

\* the place of a turn of the loops in their order
Turn(t) == (t[1] * 10 + t[2]) * 10 + t[3]

\* the turns of the loops of the phase that come after cur and reach the
\* prompt: candidate !== otherCandidate and no weight found in the
\* candidate's slot for the other one
Turns(d, phase, cur) ==
    LET list == IF phase = 2 THEN d.alternatives ELSE d.criteria
        outer == IF phase = 2 THEN DOMAIN d.criteria ELSE {0}
    IN  {t \in outer \X (DOMAIN list) \X (DOMAIN list) :
            /\ Turn(t) > Turn(cur)
            /\ t[2] # t[3]
            /\ StoredWeight(list[t[2]],
                            IF phase = 2 THEN d.criteria[t[1]].id ELSE NoId,
                            list[t[3]].id) = NoWeight}

\* the run from the end of a turn to its next await: the next turn that
\* prompts, with phaseStep += 1, or the end of the phase; after phase 3 the
\* run is at "evaluate"
RECURSIVE Continue(_, _)
Continue(d, rs) ==
    LET open == Turns(d, rs.phase, rs.cur)
    IN  IF open # {}
        THEN LET t == CHOOSE u \in open : \A v \in open : Turn(u) <= Turn(v)
             IN  [rs EXCEPT !.cur = t, !.phaseStep = @ + 1, !.at = "which",
                            !.weaker = 0, !.stronger = 0,
                            !.prompts = Append(@, <<"which", t[1], t[2], t[3]>>)]
        ELSE IF rs.phase = 2
        THEN Continue(d, [rs EXCEPT !.phase = 3, !.phaseStep = 0,
                                    !.phaseSteps = pairs(Len(d.criteria)),
                                    !.cur = <<0, 0, 0>>,
                                    !.ended = Append(@, <<2, rs.phaseStep, rs.phaseSteps>>)])
        ELSE [rs EXCEPT !.phase = 4, !.phaseStep = 1, !.phaseSteps = 1,
                        !.at = "evaluate", !.weaker = 0, !.stronger = 0,
                        !.ended = Append(@, <<3, rs.phaseStep, rs.phaseSteps>>)]

\* the list of the pair being asked, and the reference run hands to compare
\* for its k-th item and for the criterion of the turn
Asked(d, rs) == IF rs.phase = 2 THEN d.alternatives ELSE d.criteria
Whole(list, k) == Ref(list[k].id, list[k].name)
Under(d, rs) == IF rs.phase = 2 THEN Whole(d.criteria, rs.cur[1]) ELSE NoRef

\* the run moves on with the decision d: to its next prompt, or through
\* decision.evaluate() to its end
Proceed(d, rs) ==
    \E next \in {Continue(d, rs)} :
        IF next.at = "which"
        THEN /\ Commit([d |-> d])
             /\ runState' = next
        ELSE \E out \in {evaluate(d, Arrays, results)} :
                /\ id' = d.id
                /\ goal' = d.goal
                /\ criteria' = d.criteria
                /\ nextUid' = d.nextUid
                /\ alternatives' = out.alternatives
                /\ results' = out.results
                /\ runState' = [next EXCEPT !.at = IF out.err = "" THEN "done" ELSE "raised",
                                            !.err = out.err]

\* the run stops with the error a compare raised
Raise(d, rs, err) ==
    /\ Commit([d |-> d])
    /\ runState' = [rs EXCEPT !.at = "raised", !.err = err]

\* the setup prompt returns; Decision.from builds the decision from the
\* trimmed names and the run goes to the first comparison
Setup ==
    /\ runState.at = "none"
    /\ last.op = "new"
    /\ \E cs \in CriteriaAnswers, as \in AlternativesAnswers :
       \E f \in {from([id |-> NoId, goal |-> "Choose the best animal",
                       criteria |-> [k \in DOMAIN cs |-> Bare(NoId, trim(cs[k]))],
                       alternatives |-> [k \in DOMAIN as |-> Bare(NoId, trim(as[k]))]])} :
            Proceed(Filled(f),
                    [NoRun EXCEPT !.phase = 2, !.phaseStep = 0,
                                  !.phaseSteps = pairs(Len(as)) * Len(cs)])
    /\ shape' = Arrays
    /\ last' = [NoCall EXCEPT !.op = "setup"]
    /\ UNCHANGED compares

\* the 'which is weaker' prompt returns one of its two choices; the run
\* finds weaker and stronger by name and records the Equal judgment
Which ==
    /\ runState.at = "which"
    /\ \E list \in {Asked(This, runState)} :
       \E name \in {list[runState.cur[2]].name, list[runState.cur[3]].name} :
       \E weaker \in {FirstIdx(list, LAMBDA x : x.name = name)} :
       \E others \in {SelectSeq(<<list[runState.cur[2]].name, list[runState.cur[3]].name>>,
                                LAMBDA value : value # name)} :
       \E stronger \in {IF others = <<>> THEN 0
                        ELSE FirstIdx(list, LAMBDA x : x.name = others[1])} :
       \E rs \in {[runState EXCEPT !.weaker = weaker, !.stronger = stronger]} :
            IF stronger = 0
            THEN Raise(Filled(fill(This)), rs, "TypeError")
            ELSE \E out \in {compare(This, Whole(list, weaker), Whole(list, stronger),
                                     Under(This, runState), Num(IntensityEqual))} :
                    IF out.err # ""
                    THEN Raise(out.d, rs, out.err)
                    ELSE /\ Commit(out)
                         /\ runState' =
                                [rs EXCEPT !.at = "scale",
                                           !.prompts =
                                               Append(@, <<"scale", rs.cur[1], rs.cur[2],
                                                           rs.cur[3]>>)]
    /\ last' = [NoCall EXCEPT !.op = "which"]
    /\ UNCHANGED <<shape, compares>>

\* the intensity prompt returns an index of the scale; the run records the
\* judgment of stronger over weaker and goes to the next turn
Scale ==
    /\ runState.at = "scale"
    /\ \E weight \in 0..MaxAnswer :
       \E list \in {Asked(This, runState)} :
       \E out \in {compare(This, Whole(list, runState.stronger),
                           Whole(list, runState.weaker),
                           Under(This, runState), Num(scale(weight)))} :
            IF out.err # ""
            THEN Raise(out.d, runState, out.err)
            ELSE Proceed(out.d, runState)
    /\ last' = [NoCall EXCEPT !.op = "scale"]
    /\ UNCHANGED <<shape, compares>>

NextRun ==
    \/ Setup
    \/ Which
    \/ Scale

InitRun ==
    /\ Holds(Constructed)
    /\ compares = 0
    /\ runState = NoRun
    /\ last = NoCall

SpecRun == InitRun /\ [][NextRun]_vars

\* the number of prompts of a kind made for the pair {i, j} under criterion c
\* (c = 0: for a pair of criteria)
Prompted(kind, c, i, j) ==
    Cardinality({n \in DOMAIN runState.prompts :
                    /\ runState.prompts[n][1] = kind
                    /\ runState.prompts[n][2] = c
                    /\ {runState.prompts[n][3], runState.prompts[n][4]} = {i, j}})

\* every pair was asked once: one 'which is weaker' prompt, followed by one
\* intensity prompt
EachPairOnce ==
    /\ \A c \in DOMAIN criteria : \A i, j \in DOMAIN alternatives :
           i # j => Prompted("which", c, i, j) = 1 /\ Prompted("scale", c, i, j) = 1
    /\ \A i, j \in DOMAIN criteria :
           i # j => Prompted("which", 0, i, j) = 1 /\ Prompted("scale", 0, i, j) = 1
    /\ \A n \in DOMAIN runState.prompts :
           runState.prompts[n][1] = "which" =>
               /\ n + 1 \in DOMAIN runState.prompts
               /\ runState.prompts[n + 1] =
                      <<"scale", runState.prompts[n][2], runState.prompts[n][3],
                        runState.prompts[n][4]>>

\* each comparison phase ended with phaseStep = phaseSteps: C*M*(M-1)/2, then
\* C*(C-1)/2
PhasesComplete ==
    LET C == Len(criteria)
        M == Len(alternatives)
    IN  runState.ended = <<<<2, (C * M * (M - 1)) \div 2, (C * M * (M - 1)) \div 2>>,
                           <<3, (C * (C - 1)) \div 2, (C * (C - 1)) \div 2>>>>

\* C39: in the interactive run, given at least two distinct criterion names
\* and two distinct alternative names, every unordered pair of alternatives
\* is asked exactly once per criterion and every unordered pair of criteria
\* exactly once (one 'which is weaker' prompt followed by one intensity
\* prompt), whatever the answers; phaseStep ends each comparison phase equal
\* to phaseSteps, and when phase 4 is reached validate().valid is true and
\* evaluate does not raise.
C39_RunAsksEachPairOnce ==
    runState.at \in {"done", "raised"} =>
        /\ EachPairOnce
        /\ PhasesComplete
        /\ runState.phase = 4
        /\ validate(This, shape).errors = {}
        /\ runState.err = ""

====
